---- MODULE Spec2Model ----
(***************************************************************************)
(* A model of the orchestration engine: the coordinator's in-memory job    *)
(* store (pkg/controller Store: Enqueue, Next, Complete, Lookup under one  *)
(* mutex, called from concurrent request handlers), the job model's        *)
(* Validate, the SSH executor's Execute pipeline, the controller's HTTP    *)
(* handlers, the two transports and the agent loop of cmd/engine.          *)
(*                                                                         *)
(* Specifications: Spec (callers of the store), ExecSpec (one call of      *)
(* Execute), AgentSpec (the engine as main builds it, over its filesystem  *)
(* transport), HttpSpec (clients of the HTTP API), GateSpec (Validate at   *)
(* every entry), AliasSpec (callers sharing maps and slices with the       *)
(* store), PollSpec (a caller of a transport: WriteResult of the HTTP       *)
(* transport, NextJob of either) and PollFairSpec (the same, its goroutine *)
(* kept running).                                                          *)
(*                                                                         *)
(* Go strings are TLA+ strings, except the two credential fields and the   *)
(* keys of JSON objects, which are sequences of runes (Unicode code        *)
(* points) so that strings.TrimSpace and the key matching of encoding/json *)
(* are computed.  A Go pointer, map or slice that may be nil is a sequence  *)
(* of length 0 (nil) or 1 (the value it holds).  A Go error is its         *)
(* message, "" for nil.  A time.Time is its RFC 3339 text.                 *)
(***************************************************************************)
EXTENDS Integers, Sequences, FiniteSets, TLC

\* ------------------------------------------------------------------ bounds
\* Number of goroutines calling the store concurrently.
MaxCallers == 2

Callers == 1..MaxCallers

\* ------------------------------------------------------------ the job model
StatusPending == "pending"
StatusRunning == "running"
StatusFailed == "failed"
StatusSucceeded == "succeeded"

\* the runes of the strings the model uses as commands, credentials, job IDs
\* and JSON keys ("?" stands for any other string)
Chars(str) ==
    CASE str = "id" -> <<105, 100>>
      [] str = "target_host" -> <<116, 97, 114, 103, 101, 116, 95, 104, 111, 115, 116>>
      [] str = "target_port" -> <<116, 97, 114, 103, 101, 116, 95, 112, 111, 114, 116>>
      [] str = "target_user" -> <<116, 97, 114, 103, 101, 116, 95, 117, 115, 101, 114>>
      [] str = "command" -> <<99, 111, 109, 109, 97, 110, 100>>
      [] str = "arguments" -> <<97, 114, 103, 117, 109, 101, 110, 116, 115>>
      [] str = "allow_tty" -> <<97, 108, 108, 111, 119, 95, 116, 116, 121>>
      [] str = "checksum" -> <<99, 104, 101, 99, 107, 115, 117, 109>>
      [] str = "metadata" -> <<109, 101, 116, 97, 100, 97, 116, 97>>
      [] str = "credentials" -> <<99, 114, 101, 100, 101, 110, 116, 105, 97, 108, 115>>
      [] str = "username" -> <<117, 115, 101, 114, 110, 97, 109, 101>>
      [] str = "password" -> <<112, 97, 115, 115, 119, 111, 114, 100>>
      [] str = "job_id" -> <<106, 111, 98, 95, 105, 100>>
      [] str = "status" -> <<115, 116, 97, 116, 117, 115>>
      [] str = "started_at" -> <<115, 116, 97, 114, 116, 101, 100, 95, 97, 116>>
      [] str = "finished_at" -> <<102, 105, 110, 105, 115, 104, 101, 100, 95, 97, 116>>
      [] str = "exit_code" -> <<101, 120, 105, 116, 95, 99, 111, 100, 101>>
      [] str = "stdout" -> <<115, 116, 100, 111, 117, 116>>
      [] str = "stderr" -> <<115, 116, 100, 101, 114, 114>>
      [] str = "error" -> <<101, 114, 114, 111, 114>>
      [] str = "" -> <<>>
      [] str = " " -> <<32>>
      [] str = "u" -> <<117>>
      [] str = "p" -> <<112>>
      [] str = "h" -> <<104>>
      [] str = "ls" -> <<108, 115>>
      [] str = "echo hi" -> <<101, 99, 104, 111, 32, 104, 105>>
      [] str = "rm -rf /" -> <<114, 109, 32, 45, 114, 102, 32, 47>>
      [] str = "j1" -> <<106, 49>>
      [] str = "j2" -> <<106, 50>>
      [] str = "ID" -> <<73, 68>>
      [] OTHER -> <<63>>

\* unicode.IsSpace, which strings.TrimSpace trims by: U+0009 to U+000D, U+0020,
\* U+0085, U+00A0, U+1680, U+2000 to U+200A, U+2028, U+2029, U+202F, U+205F
\* and U+3000
IsSpace(c) ==
    c \in {9, 10, 11, 12, 13, 32, 133, 160, 5760, 8232, 8233, 8239, 8287, 12288}
             \cup (8192..8202)

RECURSIVE TrimLeft(_)
TrimLeft(s) ==
    IF Len(s) > 0 /\ IsSpace(Head(s)) THEN TrimLeft(Tail(s)) ELSE s

RECURSIVE TrimRight(_)
TrimRight(s) ==
    IF Len(s) > 0 /\ IsSpace(s[Len(s)])
    THEN TrimRight(SubSeq(s, 1, Len(s) - 1))
    ELSE s

\* strings.TrimSpace on a sequence of runes
TrimSpace(s) == TrimRight(TrimLeft(s))

\* mutant: the credentials are compared with "" without trimming
CredentialsValidateNoTrim(c) ==
    IF c.Username = <<>> THEN "username required"
    ELSE IF c.Password = <<>> THEN "password required"
    ELSE ""

\* CredentialBundle.Validate: the error message, "" when valid
CredentialsValidate(c) ==
    IF TrimSpace(c.Username) = <<>> THEN "username required"
    ELSE IF TrimSpace(c.Password) = <<>> THEN "password required"
    ELSE ""

\* JobDefinition.Validate: the error message, "" when valid
Validate(j) ==
    IF j.ID = "" THEN "job id cannot be empty"
    ELSE IF j.TargetHost = "" THEN "missing target_host"
    ELSE IF j.TargetUser = "" THEN "missing target_user"
    ELSE IF j.Command = "" THEN "missing command"
    ELSE IF j.Checksum = "" THEN "missing checksum"
    ELSE IF CredentialsValidate(j.Credentials) # "" THEN "credentials invalid"
    ELSE ""

\* hex(sha256(command)) for the commands of the model; any other command
\* hashes to a digest of its own
Sha256Hex(cmd) ==
    CASE cmd = "echo hi" ->
           "56a79f3b115448072387c2480044bfa2cf8f90e4f5fddd8c943b4e051b81f80b"
      [] cmd = "ls" ->
           "c7b68ac37f364473e922936708e7f43c293dd07b295171566c07ff5fe024fab9"
      [] cmd = "rm -rf /" ->
           "5c7923bd67b06c93279d49c466301c57023822eec29c49e269063e47aecd973c"
      [] OTHER -> "e3b0c44298fc1c149afbf4c8996fb92427ae41e4649b934ca495991b7852b855"

NilMap == <<>>

\* a nil []string
NilList == <<>>

\* a JobDefinition value
MkJob(id, host, port, user, cmd, tty, sum, uname, pw) ==
    [ ID |-> id, TargetHost |-> host, TargetPort |-> port, TargetUser |-> user,
      Command |-> cmd, Arguments |-> NilList, AllowTTY |-> tty, Checksum |-> sum,
      Metadata |-> NilMap,
      Credentials |-> [Username |-> uname, Password |-> pw] ]

\* time.Time{}: the zero time, as json.Marshal writes it
ZeroTime == "0001-01-01T00:00:00Z"

\* a Result value, its timestamps not set
MkResult(id, status, exit, out, errout, err, meta) ==
    [ JobID |-> id, Status |-> status, StartedAt |-> ZeroTime, FinishedAt |-> ZeroTime,
      ExitCode |-> exit, Stdout |-> out, Stderr |-> errout, Error |-> err,
      Metadata |-> meta ]

\* jobs.Result{}: the zero value
ZeroResult == MkResult("", "", 0, "", "", "", NilMap)

\* ------------------------------------------------- inputs of the store model
GoodJob(id, cmd) ==
    MkJob(id, "h", 0, "u", cmd, FALSE, Sha256Hex(cmd), Chars("u"), Chars("p"))

\* the job IDs submitters use
JobIDs == {"j1", "j2"}

\* an ID no submitter ever enqueues
UnknownID == "j9"

\* jobs handed to Enqueue: two different jobs under one ID, a job under a
\* second ID, and a job Validate rejects (its password is blank)
ValidJobs == { GoodJob("j1", "echo hi"), GoodJob("j1", "ls"), GoodJob("j2", "ls") }

InvalidJobs ==
    { [GoodJob("j2", "ls") EXCEPT !.Credentials.Password = <<32, 9>>] }

EnqueueInputs == ValidJobs \cup InvalidJobs

\* results handed to Complete: the store accepts any Status value
CompleteInputs ==
    { MkResult("j1", StatusSucceeded, 0, "hi", "", "", NilMap),
      MkResult("j1", StatusFailed, 1, "", "boom", "Process exited with status 1", NilMap),
      MkResult("j1", StatusPending, 0, "", "", "", NilMap),
      MkResult("j2", StatusFailed, -1, "", "", "checksum mismatch", NilMap),
      MkResult(UnknownID, StatusSucceeded, 0, "", "", "", NilMap) }

LookupInputs == JobIDs \cup {UnknownID}

\* ------------------------------------------------------------------- state
VARIABLES
    queue,      \* Store.queue: FIFO of job IDs waiting pickup
    records,    \* Store.records: job ID -> [job, status, result]
    mu,         \* Store.mu: NoOwner, or the caller holding the lock
    pc,         \* per caller: where it is in the method it is running
    frame,      \* per caller: the arguments, locals and return values of the call
    enqLog,     \* history: the jobs of the successful Enqueue calls, in order
    nextLog,    \* history: [by, job] for every job a Next call returned, in order
    completed,  \* history: the IDs a Complete call succeeded for
    epochM,     \* history: queue length right after the latest successful Enqueue
    epochN,     \* history: Next calls since then (saturating at EpochCap)
    epochGot,   \* history: how many of those received a job
    xpc,        \* Execute: the step the call is at
    xin,        \* Execute: its inputs [job, creds, allow, hostKey, pins]
    xctx,       \* Execute: "live", or why ctx is done ("deadline", "canceled")
    xremote,    \* Execute: the goroutine of session.Run: "idle", "running", "sent"
    xdone,      \* Execute: the channel done (capacity 1): what session.Run returned
    xret,       \* Execute: <<>> until it returns, then <<[result, err]>>
    xpath,      \* history: the exit path Execute returned through
    xdialed,    \* history: whether a dial was attempted
    apc,        \* agent loop: "off", "select", "poll", "nexterr", "exec", "report", "stopped";
                \* a caller of WriteResult alone: "report", "returned"
    stop,       \* agent: whether the channel stop is closed
    sigpc,      \* agent: the signal goroutine: "wait", "closed", "cancelled"
    actx,       \* agent: the context ctx: "live" or "canceled"
    tkind,      \* the transport that is called: "fs" or "http"
    inbox,      \* filesystem transport: file name -> content of the inbox directory
    acfg,       \* agent: the configuration: [exec, allow]
    ajob,       \* agent: <<>>, or <<[job, path]>> as NextJob returned them
    aerr,       \* agent: the error of the last NextJob or WriteResult call, "" if none
    ahist,      \* history: executions and result writes per job token
    gate,       \* validation gates: [job, tried, passed] for the job under test
    hlast,      \* HTTP API: the last request and the response it got
    hphase,     \* HTTP API history: job ID -> the last lifecycle answer about it
    heap,       \* aliasing: address -> content of the maps and slices callers made
    held        \* aliasing: [addr, way]: the addresses callers hold, and through what

storeVars == <<queue, records, mu, pc, frame, enqLog, nextLog, completed,
               epochM, epochN, epochGot>>

execVars == <<xpc, xin, xctx, xremote, xdone, xret, xpath, xdialed>>

agentVars == <<apc, stop, sigpc, actx, tkind, inbox, acfg, ajob, aerr, ahist>>

\* what the store's methods, and what Execute, leave alone
gateVars == <<gate>>

httpVars == <<hlast, hphase>>

aliasVars == <<heap, held>>

sideVars == <<gateVars, httpVars, aliasVars>>

\* what the store's methods, and what Execute, leave alone
nonStoreVars == <<execVars, agentVars, sideVars>>

nonExecVars == <<storeVars, agentVars, sideVars>>

vars == <<storeVars, execVars, agentVars, sideVars>>

NoOwner == 0

\* epochN stops counting once it exceeds every possible queue length
EpochCap == Cardinality(JobIDs) + 1

Min(a, b) == IF a < b THEN a ELSE b

IdleFrame == [op |-> "idle"]

\* no caller is inside a method of the store, and nothing is logged yet
StoreQuiet ==
    /\ mu = NoOwner
    /\ pc = [t \in Callers |-> "idle"]
    /\ frame = [t \in Callers |-> IdleFrame]
    /\ enqLog = <<>>
    /\ nextLog = <<>>
    /\ completed = {}
    /\ epochM = 0
    /\ epochN = 0
    /\ epochGot = 0

\* NewStore()
NewStore ==
    /\ queue = <<>>
    /\ records = <<>>
    /\ StoreQuiet

\* no call of Execute is in progress
ExecOff ==
    /\ xpc = "off"
    /\ xin = <<>>
    /\ xctx = "live"
    /\ xremote = "idle"
    /\ xdone = <<>>
    /\ xret = <<>>
    /\ xpath = ""
    /\ xdialed = FALSE

NoHistory == [executed |-> {}, executedTwice |-> {}, written |-> {},
              writtenTwice |-> {}, fetched |-> {}, iterExec |-> 0, iterWrite |-> 0,
              latePolls |-> 0, stopPolls |-> 0]

\* no agent runs
AgentOff ==
    /\ apc = "off"
    /\ stop = FALSE
    /\ sigpc = "wait"
    /\ actx = "live"
    /\ tkind = "fs"
    /\ inbox = <<>>
    /\ acfg = <<>>
    /\ ajob = <<>>
    /\ aerr = ""
    /\ ahist = NoHistory

NoGate == [job |-> <<>>, tried |-> {}, passed |-> {}]

NoRequest == [req |-> "", id |-> "", code |-> 0, body |-> [json |-> FALSE, obj |-> <<>>, text |-> ""],
              empty |-> FALSE, fault |-> "none"]

\* the variables of the other views of the program, at rest
SideOff ==
    /\ gate = NoGate
    /\ hlast = NoRequest
    /\ hphase = <<>>
    /\ heap = <<>>
    /\ held = {}

\* a controller's store right after NewStore(), callers about to use it
StoreInit == NewStore /\ ExecOff /\ AgentOff /\ SideOff

\* mutant: the lock excludes nobody (the method runs without the mutex)
LockFreeNoExclusion(t) == TRUE

\* s.mu.Lock(): blocks until no caller holds the mutex
LockFree(t) == mu = NoOwner

Lock(t) == LockFree(t) /\ mu' = t

\* the deferred s.mu.Unlock() of the caller that returns
Unlock(t) == mu' = IF mu = t THEN NoOwner ELSE mu

historyVars == <<enqLog, nextLog, completed, epochM, epochN, epochGot>>

\* --------------------------------------------------------- Store.Enqueue
\* the record Enqueue files for a job
NewRecord(job) == [job |-> job, status |-> StatusPending, result |-> <<>>]

\* s.records[job.ID] = &jobRecord{job: job, status: StatusPending}
EnqueueRecords(recs, job) ==
    [k \in (DOMAIN recs) \cup {job.ID} |->
        IF k = job.ID THEN NewRecord(job) ELSE recs[k]]

\* mutant: the duplicate check is missing
EnqueueExistsNever(recs, job) == FALSE

\* _, exists := s.records[job.ID]
EnqueueExists(recs, job) == job.ID \in DOMAIN recs

\* mutant: the ID is pushed at the head of the queue
EnqueueQueueAtHead(q, jobID) == <<jobID>> \o q

\* s.queue = append(s.queue, job.ID)
EnqueueQueue(q, jobID) == Append(q, jobID)

\* job.Validate() fails: Enqueue returns the error before taking the lock
EnqueueInvalid(t, job) ==
    /\ pc[t] = "idle"
    /\ Validate(job) # ""
    /\ pc' = [pc EXCEPT ![t] = "enq_ret"]
    /\ frame' = [frame EXCEPT ![t] = [op |-> "enqueue", job |-> job,
                                      err |-> Validate(job)]]
    /\ UNCHANGED <<queue, records, mu, historyVars, nonStoreVars>>

\* job.Validate() passes and the caller takes the lock
EnqueueLock(t, job) ==
    /\ pc[t] = "idle"
    /\ Validate(job) = ""
    /\ Lock(t)
    /\ pc' = [pc EXCEPT ![t] = "enq_check"]
    /\ frame' = [frame EXCEPT ![t] = [op |-> "enqueue", job |-> job]]
    /\ UNCHANGED <<queue, records, historyVars, nonStoreVars>>

\* if _, exists := s.records[job.ID]; exists { return error }
EnqueueCheck(t) ==
    /\ pc[t] = "enq_check"
    /\ IF EnqueueExists(records, frame[t].job)
       THEN /\ pc' = [pc EXCEPT ![t] = "enq_ret"]
            /\ frame' = [frame EXCEPT ![t] = [op |-> "enqueue", job |-> frame[t].job,
                                              err |-> "job already exists"]]
       ELSE /\ pc' = [pc EXCEPT ![t] = "enq_insert"]
            /\ frame' = frame
    /\ UNCHANGED <<queue, records, mu, historyVars, nonStoreVars>>

\* the record is filed and the ID appended to the queue
EnqueueInsert(t) ==
    /\ pc[t] = "enq_insert"
    /\ records' = EnqueueRecords(records, frame[t].job)
    /\ queue' = EnqueueQueue(queue, frame[t].job.ID)
    /\ pc' = [pc EXCEPT ![t] = "enq_ret"]
    /\ frame' = [frame EXCEPT ![t] = [op |-> "enqueue", job |-> frame[t].job,
                                      err |-> ""]]
    /\ enqLog' = Append(enqLog, frame[t].job)
    /\ epochM' = Len(queue')
    /\ epochN' = 0
    /\ epochGot' = 0
    /\ UNCHANGED <<mu, nextLog, completed, nonStoreVars>>

\* ------------------------------------------------------------ Store.Next
NextLock(t) ==
    /\ pc[t] = "idle"
    /\ Lock(t)
    /\ pc' = [pc EXCEPT ![t] = "next_head"]
    /\ frame' = [frame EXCEPT ![t] = [op |-> "next"]]
    /\ UNCHANGED <<queue, records, historyVars, nonStoreVars>>

\* if len(s.queue) == 0 { return nil, false };  jobID := s.queue[0]
NextHead(t) ==
    /\ pc[t] = "next_head"
    /\ IF Len(queue) = 0
       THEN /\ pc' = [pc EXCEPT ![t] = "next_ret"]
            /\ frame' = [frame EXCEPT ![t] = [op |-> "next", ret |-> <<>>,
                                              ok |-> FALSE]]
            /\ epochN' = Min(epochN + 1, EpochCap)
       ELSE /\ pc' = [pc EXCEPT ![t] = "next_pop"]
            /\ frame' = [frame EXCEPT ![t] = [op |-> "next", jobID |-> queue[1]]]
            /\ epochN' = epochN
    /\ UNCHANGED <<queue, records, mu, enqLog, nextLog, completed, epochM, epochGot, nonStoreVars>>

\* mutant: the queue is not advanced
NextQueueKeepsHead(q) == q

\* s.queue = s.queue[1:]
NextQueue(q) == SubSeq(q, 2, Len(q))

\* rec.status = jobs.StatusRunning
NextRecords(recs, jobID) == [recs EXCEPT ![jobID].status = StatusRunning]

\* s.queue = s.queue[1:]; rec.status = running; return &jobCopy, true
NextPop(t) ==
    /\ pc[t] = "next_pop"
    /\ queue' = NextQueue(queue)
    /\ records' = NextRecords(records, frame[t].jobID)
    /\ pc' = [pc EXCEPT ![t] = "next_ret"]
    /\ frame' = [frame EXCEPT ![t] = [op |-> "next", jobID |-> frame[t].jobID,
                                      ret |-> <<records[frame[t].jobID].job>>,
                                      ok |-> TRUE]]
    /\ nextLog' = Append(nextLog, [by |-> t, job |-> records[frame[t].jobID].job])
    /\ epochN' = Min(epochN + 1, EpochCap)
    /\ epochGot' = epochGot + 1
    /\ UNCHANGED <<mu, enqLog, completed, epochM, nonStoreVars>>

\* -------------------------------------------------------- Store.Complete
CompleteLock(t, r) ==
    /\ pc[t] = "idle"
    /\ Lock(t)
    /\ pc' = [pc EXCEPT ![t] = "cmp_body"]
    /\ frame' = [frame EXCEPT ![t] = [op |-> "complete", res |-> r]]
    /\ UNCHANGED <<queue, records, historyVars, nonStoreVars>>

\* mutant: the status is recorded, the result is not
CompleteRecordsStatusOnly(recs, r) == [recs EXCEPT ![r.JobID].status = r.Status]

\* mutant: the first result recorded for a job is kept
CompleteRecordsFirstWins(recs, r) ==
    IF recs[r.JobID].result = <<>>
    THEN [recs EXCEPT ![r.JobID].status = r.Status, ![r.JobID].result = <<r>>]
    ELSE recs

\* rec.status = result.Status; resCopy := result; rec.result = &resCopy
CompleteRecords(recs, r) ==
    [recs EXCEPT ![r.JobID].status = r.Status, ![r.JobID].result = <<r>>]

\* mutant: an unknown job gets a record made for it
CompleteApplyUpsert(recs, r) ==
    [recs |-> [k \in (DOMAIN recs) \cup {r.JobID} |->
                 IF k = r.JobID
                 THEN [job |-> IF k \in DOMAIN recs THEN recs[k].job
                               ELSE MkJob(k, "", 0, "", "", FALSE, "", <<>>, <<>>),
                       status |-> r.Status, result |-> <<r>>]
                 ELSE recs[k]],
     err |-> ""]

\* the body of Complete: the records it leaves and the error it returns
CompleteApply(recs, r) ==
    IF r.JobID \in DOMAIN recs
    THEN [recs |-> CompleteRecords(recs, r), err |-> ""]
    ELSE [recs |-> recs, err |-> "job not found"]

CompleteBody(t) ==
    /\ pc[t] = "cmp_body"
    /\ records' = CompleteApply(records, frame[t].res).recs
    /\ pc' = [pc EXCEPT ![t] = "cmp_ret"]
    /\ frame' = [frame EXCEPT ![t] =
                    [op |-> "complete", res |-> frame[t].res,
                     old |-> LET id == frame[t].res.JobID
                             IN IF id \in DOMAIN records THEN records[id].result
                                ELSE <<>>,
                     err |-> CompleteApply(records, frame[t].res).err]]
    /\ completed' = IF CompleteApply(records, frame[t].res).err = ""
                    THEN completed \cup {frame[t].res.JobID}
                    ELSE completed
    /\ UNCHANGED <<queue, mu, enqLog, nextLog, epochM, epochN, epochGot, nonStoreVars>>

\* ---------------------------------------------------------- Store.Lookup
\* what Lookup returns: (status, result, found)
LookupRecords(recs, jobID) ==
    IF jobID \notin DOMAIN recs
    THEN [status |-> "", result |-> <<>>, found |-> FALSE]
    ELSE IF recs[jobID].result = <<>>
         THEN [status |-> recs[jobID].status, result |-> <<>>, found |-> TRUE]
         ELSE [status |-> recs[jobID].status,
               result |-> <<recs[jobID].result[1]>>, found |-> TRUE]

LookupLock(t, jobID) ==
    /\ pc[t] = "idle"
    /\ Lock(t)
    /\ pc' = [pc EXCEPT ![t] = "look_find"]
    /\ frame' = [frame EXCEPT ![t] = [op |-> "lookup", jobID |-> jobID]]
    /\ UNCHANGED <<queue, records, historyVars, nonStoreVars>>

LookupFind(t) ==
    /\ pc[t] = "look_find"
    /\ pc' = [pc EXCEPT ![t] = "look_ret"]
    /\ frame' = [frame EXCEPT ![t] = [op |-> "lookup", jobID |-> frame[t].jobID,
                                      ret |-> LookupRecords(records, frame[t].jobID)]]
    /\ UNCHANGED <<queue, records, mu, historyVars, nonStoreVars>>

\* ----------------------------------------------------------------- return
RetStates == {"enq_ret", "next_ret", "cmp_ret", "look_ret"}

\* the method returns to its caller; the deferred Unlock runs
Return(t) ==
    /\ pc[t] \in RetStates
    /\ Unlock(t)
    /\ pc' = [pc EXCEPT ![t] = "idle"]
    /\ frame' = [frame EXCEPT ![t] = IdleFrame]
    /\ UNCHANGED <<queue, records, historyVars, nonStoreVars>>

StoreNext ==
    \E t \in Callers :
        \/ \E job \in EnqueueInputs : EnqueueInvalid(t, job)
        \/ \E job \in EnqueueInputs : EnqueueLock(t, job)
        \/ EnqueueCheck(t)
        \/ EnqueueInsert(t)
        \/ NextLock(t)
        \/ NextHead(t)
        \/ NextPop(t)
        \/ \E r \in CompleteInputs : CompleteLock(t, r)
        \/ CompleteBody(t)
        \/ \E id \in LookupInputs : LookupLock(t, id)
        \/ LookupFind(t)
        \/ Return(t)

Spec == StoreInit /\ [][StoreNext]_vars

\* =====================================================================
\* SSHExecutor.Execute
\* =====================================================================
\* A Go error value of the executor: its dynamic type, its message and, for
\* an *ssh.ExitError, the remote exit status.
NilErr == [type |-> "nil", msg |-> "", status |-> 0]

PlainErr(msg) == [type |-> "error", msg |-> msg, status |-> 0]

\* *ssh.ExitError: the remote command exited with a nonzero status
ExitErr(n) == [type |-> "ExitError", msg |-> "Process exited with status", status |-> n]

\* fmt.Errorf(prefix + ": %w", e): a *fmt.wrapError around e
WrapErr(prefix, e) == [type |-> "wrapError", msg |-> prefix \o ": " \o e.msg, status |-> 0]

\* effectivePort: 22 when the job gives none
EffectivePort(port) == IF port <= 0 THEN 22 ELSE port

\* buildCredentials.  fmt.Sprintf("%s:%d", host, port) is the pair <<host, port>>,
\* a bare host the 1-tuple <<host>>; a missing map key reads as "".
BuildCredentials(job, execCfg) ==
    LET fpKey == IF job.TargetPort # 0
                 THEN <<job.TargetHost, job.TargetPort>>
                 ELSE <<job.TargetHost>>
    IN [ Address |-> <<job.TargetHost, EffectivePort(job.TargetPort)>>,
         Username |-> job.TargetUser,
         Password |-> execCfg.Password,
         Fingerprint |-> IF fpKey \in DOMAIN execCfg.HostKeyFingerprints
                         THEN execCfg.HostKeyFingerprints[fpKey]
                         ELSE "" ]

\* mutant: the checksum is not recomputed
ValidateJobNoChecksum(allow, job) ==
    IF Validate(job) # "" THEN PlainErr(Validate(job))
    ELSE IF Cardinality(allow) > 0 /\ job.Command \notin allow
         THEN PlainErr("command " \o job.Command \o " not allowed")
    ELSE NilErr

\* mutant: the allow-list is not consulted
ValidateJobNoAllowlist(allow, job) ==
    IF Validate(job) # "" THEN PlainErr(Validate(job))
    ELSE IF Sha256Hex(job.Command) # job.Checksum THEN PlainErr("checksum mismatch")
    ELSE NilErr

\* validateJob: Validate, then the allow-list, then the checksum
ValidateJob(allow, job) ==
    IF Validate(job) # "" THEN PlainErr(Validate(job))
    ELSE IF Cardinality(allow) > 0 /\ job.Command \notin allow
         THEN PlainErr("command " \o job.Command \o " not allowed")
    ELSE IF Sha256Hex(job.Command) # job.Checksum THEN PlainErr("checksum mismatch")
    ELSE NilErr

\* statusFromError
StatusFromError(err) == IF err # NilErr THEN StatusFailed ELSE StatusSucceeded

\* errorString
ErrorString(err) == IF err = NilErr THEN "" ELSE err.msg

\* the exit code buildResult computes: the type assertion runErr.(*ssh.ExitError)
\* looks at the error's own type, not at what it wraps
ExitCodeOf(runErr) ==
    IF runErr # NilErr
    THEN IF runErr.type = "ExitError" THEN runErr.status ELSE -1
    ELSE 0

\* time.Now().UTC() as Execute reads it when it begins, and as buildResult
\* reads it
Started == "2024-05-01T12:00:00Z"

Finished == "2024-05-01T12:00:01Z"

\* buildResult
BuildResult(job, stdout, stderr, runErr) ==
    [ MkResult(job.ID, StatusFromError(runErr), ExitCodeOf(runErr), stdout, stderr,
               ErrorString(runErr), job.Metadata)
        EXCEPT !.StartedAt = Started, !.FinishedAt = Finished ]

\* makeHostKeyCallback(expected) applied to the key the remote presents
HostKeyCallback(expected, key) ==
    IF expected = "" THEN NilErr
    ELSE IF key # expected THEN PlainErr("host key mismatch")
    ELSE NilErr

\* ------------------------------------------------ inputs of the executor model
TTYJob == [GoodJob("j1", "echo hi") EXCEPT !.AllowTTY = TRUE]

ExecJobs ==
    { GoodJob("j1", "echo hi"),
      TTYJob,
      [GoodJob("j1", "echo hi") EXCEPT !.TargetPort = 2222],
      [GoodJob("j1", "echo hi") EXCEPT !.TargetPort = 22],
      [GoodJob("j1", "echo hi") EXCEPT !.TargetPort = -1],
      [GoodJob("j1", "echo hi") EXCEPT !.Checksum = Sha256Hex("ls")],
      GoodJob("j2", "rm -rf /"),
      GoodJob("", "ls"),
      [TTYJob EXCEPT !.Credentials.Username = Chars(" ")] }

GoodPin == "SHA256:good"

\* execution configurations: with and without a password, with and without a
\* pinned host key for the target
ExecConfigs ==
    { [Password |-> pw, HostKeyFingerprints |-> fp] :
        pw \in {"", "secret"},
        fp \in { <<>>, [k \in {<<"h">>} |-> GoodPin] } }

\* a configuration that pins the host key of the target under "host:22"
PortPinConfigs ==
    { [Password |-> "secret", HostKeyFingerprints |-> [k \in {<<"h", 22>>} |-> GoodPin]] }

\* execution.allowed_commands as configured: unset, two commands, blank
\* entries only, a command and a blank entry
AllowedCommandConfigs == { <<>>, <<"echo hi", "ls">>, <<" ">>, <<"ls", "">> }

\* buildAllowlist: nil for an empty slice, else the set of the entries that are
\* not blank (a nil map and an empty map both have len 0)
BuildAllowlist(commands) ==
    IF Len(commands) = 0 THEN {}
    ELSE { commands[i] : i \in { k \in DOMAIN commands :
                                     TrimSpace(Chars(commands[k])) # <<>> } }

\* SSHExecutor.AllowedCommands: what buildAllowlist makes of the configurations
AllowLists == { BuildAllowlist(c) : c \in AllowedCommandConfigs }

\* the host key the remote presents
HostKeys == {GoodPin, "SHA256:evil"}

\* what session.Run returns: nil, a nonzero exit, or another error
RunOutcomes ==
    { [err |-> NilErr, stdout |-> "hi"],
      [err |-> ExitErr(1), stdout |-> ""],
      [err |-> ExitErr(137), stdout |-> "hi"],
      [err |-> PlainErr("wait: remote command exited without exit status or exit signal"),
       stdout |-> ""] }

\* a call of Execute(ctx, job, buildCredentials(job, cfg, key)) begins
ExecInit ==
    /\ NewStore
    /\ AgentOff
    /\ SideOff
    /\ xpc = "validate"
    /\ \E job \in ExecJobs, cfg \in ExecConfigs \cup PortPinConfigs, allow \in AllowLists,
          key \in HostKeys :
          xin = [job |-> job, creds |-> BuildCredentials(job, cfg),
                 allow |-> allow, hostKey |-> key, pins |-> cfg.HostKeyFingerprints]
    /\ xctx \in {"live", "canceled"}
    /\ xremote = "idle"
    /\ xdone = <<>>
    /\ xret = <<>>
    /\ xpath = ""
    /\ xdialed = FALSE

\* Execute returns (result, err) through the exit path named
ExecReturns(result, err, path) ==
    /\ xpc' = "done"
    /\ xret' = <<[result |-> result, err |-> err]>>
    /\ xpath' = path

\* the error returns that go through buildResult
ExecFails(err, path) == ExecReturns(BuildResult(xin.job, "", "", err), err, path)

\* if err := e.validateJob(job); err != nil { return buildResult(...), err }
ExecValidate ==
    /\ xpc = "validate"
    /\ IF ValidateJob(xin.allow, xin.job) # NilErr
       THEN ExecFails(ValidateJob(xin.allow, xin.job), "validation")
       ELSE xpc' = "creds" /\ UNCHANGED <<xret, xpath>>
    /\ UNCHANGED <<xin, xctx, xremote, xdone, xdialed, nonExecVars>>

\* newClient: the checks on the credentials
ExecCredentials ==
    /\ xpc = "creds"
    /\ IF xin.creds.Address = <<>> \/ xin.creds.Username = ""
       THEN ExecFails(PlainErr("missing SSH address or username"), "credentials")
       ELSE IF xin.creds.Password = ""
       THEN ExecFails(PlainErr("missing password"), "credentials")
       ELSE xpc' = "dial" /\ UNCHANGED <<xret, xpath>>
    /\ UNCHANGED <<xin, xctx, xremote, xdone, xdialed, nonExecVars>>

\* newClient: dialer.DialContext(ctx, "tcp", creds.Address); a done ctx
\* fails the dial
ExecDial(reachable) ==
    /\ xpc = "dial"
    /\ xdialed' = TRUE
    /\ IF xctx # "live" \/ ~reachable
       THEN ExecFails(WrapErr("dial", PlainErr("connect failed")), "dial")
       ELSE xpc' = "handshake" /\ UNCHANGED <<xret, xpath>>
    /\ UNCHANGED <<xin, xctx, xremote, xdone, nonExecVars>>

\* newClient: ssh.NewClientConn: the host key callback, then password auth
ExecHandshake(authOK) ==
    /\ xpc = "handshake"
    /\ IF HostKeyCallback(xin.creds.Fingerprint, xin.hostKey) # NilErr
       THEN ExecFails(WrapErr("handshake",
                              HostKeyCallback(xin.creds.Fingerprint, xin.hostKey)),
                      "handshake")
       ELSE IF ~authOK
       THEN ExecFails(WrapErr("handshake", PlainErr("unable to authenticate")),
                      "handshake")
       ELSE xpc' = "session" /\ UNCHANGED <<xret, xpath>>
    /\ UNCHANGED <<xin, xctx, xremote, xdone, xdialed, nonExecVars>>

\* client.NewSession()
ExecNewSession(opened) ==
    /\ xpc = "session"
    /\ IF ~opened
       THEN ExecFails(WrapErr("start session", PlainErr("open failed")), "session")
       ELSE /\ xpc' = IF xin.job.AllowTTY THEN "pty" ELSE "run"
            /\ UNCHANGED <<xret, xpath>>
    /\ UNCHANGED <<xin, xctx, xremote, xdone, xdialed, nonExecVars>>

\* what Execute returns when session.RequestPty fails
PtyFailure(job, err) == [result |-> ZeroResult, err |-> err]

\* if job.AllowTTY { if err := session.RequestPty(...); err != nil { return ... } }
ExecRequestPty(granted) ==
    /\ xpc = "pty"
    /\ IF ~granted
       THEN LET r == PtyFailure(xin.job, WrapErr("request pty", PlainErr("pty refused")))
            IN ExecReturns(r.result, r.err, "pty")
       ELSE xpc' = "run" /\ UNCHANGED <<xret, xpath>>
    /\ UNCHANGED <<xin, xctx, xremote, xdone, xdialed, nonExecVars>>

\* go func() { done <- session.Run(job.Command) }()
ExecRun ==
    /\ xpc = "run"
    /\ xpc' = "select"
    /\ xremote' = "running"
    /\ UNCHANGED <<xin, xctx, xdone, xret, xpath, xdialed, nonExecVars>>

\* session.Run returns in its goroutine and its error is sent on done
RemoteDone(outcome) ==
    /\ xremote = "running"
    /\ xremote' = "sent"
    /\ xdone' = <<outcome>>
    /\ UNCHANGED <<xpc, xin, xctx, xret, xpath, xdialed, nonExecVars>>

\* the context Execute was given becomes done: the job's deadline passes, or
\* the parent context is cancelled
CtxDone(why) ==
    /\ xctx = "live"
    /\ xpc \notin {"done"}
    /\ xctx' = why
    /\ UNCHANGED <<xpc, xin, xremote, xdone, xret, xpath, xdialed, nonExecVars>>

\* runCtx.Err()
CtxErr(why) ==
    IF why = "deadline" THEN PlainErr("context deadline exceeded")
    ELSE PlainErr("context canceled")

\* the beginnings of what a command of the model prints
Prefixes(str) ==
    CASE str = "" -> {""}
      [] str = "hi" -> {"", "h", "hi"}

\* stdoutBuf.String() at the moment the select returns: all of the output once
\* session.Run has returned; while it runs the buffer is read unsynchronised
\* with its writer, and holds any beginning of what the command prints
StdoutSoFar ==
    IF xdone # <<>> THEN {xdone[1].stdout}
    ELSE UNION { Prefixes(o.stdout) : o \in RunOutcomes }

\* select: case <-runCtx.Done()
ExecSelectCtx(out) ==
    /\ xpc = "select"
    /\ xctx # "live"
    /\ out \in StdoutSoFar
    /\ ExecReturns(BuildResult(xin.job, out, "", CtxErr(xctx)), CtxErr(xctx), "cancel")
    /\ UNCHANGED <<xin, xctx, xremote, xdone, xdialed, nonExecVars>>

\* select: case err := <-done
ExecSelectDone ==
    /\ xpc = "select"
    /\ xdone # <<>>
    /\ ExecReturns(BuildResult(xin.job, xdone[1].stdout, "", xdone[1].err),
                   xdone[1].err,
                   IF xdone[1].err = NilErr THEN "success"
                   ELSE IF xdone[1].err.type = "ExitError" THEN "exit" ELSE "run")
    /\ xdone' = <<>>
    /\ UNCHANGED <<xin, xctx, xremote, xdialed, nonExecVars>>

ExecNext ==
    \/ ExecValidate
    \/ ExecCredentials
    \/ \E reachable \in BOOLEAN : ExecDial(reachable)
    \/ \E authOK \in BOOLEAN : ExecHandshake(authOK)
    \/ \E opened \in BOOLEAN : ExecNewSession(opened)
    \/ \E granted \in BOOLEAN : ExecRequestPty(granted)
    \/ ExecRun
    \/ \E outcome \in RunOutcomes : RemoteDone(outcome)
    \/ \E why \in {"deadline", "canceled"} : CtxDone(why)
    \/ \E out \in StdoutSoFar : ExecSelectCtx(out)
    \/ ExecSelectDone

ExecSpec == ExecInit /\ [][ExecNext]_vars

\* =====================================================================
\* The controller's HTTP API (cmd/controller): JSON bodies and handlers
\* =====================================================================
\* a request or response body: a JSON object, or text that is not JSON
NoBody == [json |-> FALSE, obj |-> <<>>, text |-> ""]

TextBody(msg) == [json |-> FALSE, obj |-> <<>>, text |-> msg]

JsonBody(obj) == [json |-> TRUE, obj |-> obj, text |-> ""]

\* a JSON value: null, a string, a number, a boolean, an array of values, or an
\* object, which is the sequence of its members in the order of the document
JsonNull == [kind |-> "null", val |-> <<>>]

JsonString(s) == [kind |-> "string", val |-> s]

JsonNumber(n) == [kind |-> "number", val |-> n]

JsonBool(b) == [kind |-> "bool", val |-> b]

JsonArray(items) == [kind |-> "array", val |-> items]

JsonObject(members) == [kind |-> "object", val |-> members]

\* a member of a JSON object: its key, as runes, and its value
Member(key, value) == [k |-> Chars(key), v |-> value]

\* a field of a Go struct as encoding/json sees it: the key of its json tag,
\* its name, the kind of its type and, for a struct, the fields of that struct
GoField(tag, name, kind, fields) ==
    [tag |-> Chars(tag), name |-> name, kind |-> kind, fields |-> fields]

\* type CredentialBundle struct
CredentialFields ==
    << GoField("username", "Username", "string", <<>>),
       GoField("password", "Password", "string", <<>>) >>

\* type JobDefinition struct
JobFields ==
    << GoField("id", "ID", "string", <<>>),
       GoField("target_host", "TargetHost", "string", <<>>),
       GoField("target_port", "TargetPort", "int", <<>>),
       GoField("target_user", "TargetUser", "string", <<>>),
       GoField("command", "Command", "string", <<>>),
       GoField("arguments", "Arguments", "strings", <<>>),
       GoField("allow_tty", "AllowTTY", "bool", <<>>),
       GoField("checksum", "Checksum", "string", <<>>),
       GoField("metadata", "Metadata", "map", <<>>),
       GoField("credentials", "Credentials", "struct", CredentialFields) >>

\* type Result struct
ResultFields ==
    << GoField("job_id", "JobID", "string", <<>>),
       GoField("status", "Status", "string", <<>>),
       GoField("started_at", "StartedAt", "time", <<>>),
       GoField("finished_at", "FinishedAt", "time", <<>>),
       GoField("exit_code", "ExitCode", "int", <<>>),
       GoField("stdout", "Stdout", "string", <<>>),
       GoField("stderr", "Stderr", "string", <<>>),
       GoField("error", "Error", "string", <<>>),
       GoField("metadata", "Metadata", "map", <<>>) >>

\* the rune encoding/json folds a rune of a key to: letters without their
\* case, the Kelvin sign (U+212A) as k and the long s (U+017F) as s
FoldRune(c) ==
    IF c \in 65..90 THEN c + 32
    ELSE IF c = 8490 THEN 107
    ELSE IF c = 383 THEN 115
    ELSE c

\* whether two keys are equal when their runes are folded
EqualFold(a, b) ==
    /\ Len(a) = Len(b)
    /\ \A i \in 1..Len(a) : FoldRune(a[i]) = FoldRune(b[i])

\* the field a key of the document is stored in: the one whose tag is the key,
\* else the one whose tag equals it when case is ignored; 0 when there is none
\* and the member is skipped
FieldFor(fields, key) ==
    IF \E i \in DOMAIN fields : fields[i].tag = key
    THEN CHOOSE i \in DOMAIN fields : fields[i].tag = key
    ELSE IF \E i \in DOMAIN fields : EqualFold(fields[i].tag, key)
    THEN CHOOSE i \in DOMAIN fields :
            /\ EqualFold(fields[i].tag, key)
            /\ \A n \in 1..(i - 1) : ~EqualFold(fields[n].tag, key)
    ELSE 0

\* a JSON array decoded into a []string whose backing array holds back: each
\* element is decoded into the element at its place, and a null or a value of
\* another type leaves that element as it is (an element the array never had
\* is ""); the elements behind the last one stay in the backing array
StringsOf(back, items) ==
    [i \in 1..(IF Len(items) > Len(back) THEN Len(items) ELSE Len(back)) |->
        IF i <= Len(items) /\ items[i].kind = "string" THEN items[i].val
        ELSE IF i <= Len(back) THEN back[i] ELSE ""]

\* a JSON object decoded into a map[string]string that holds old: every member
\* is stored under its key as written, a later member over an earlier one; a
\* member that is no string is stored as ""
MapOf(old, members) ==
    LET keys == {members[i].k : i \in DOMAIN members}
    IN [key \in (DOMAIN old) \cup keys |->
          IF key \in keys
          THEN LET last == CHOOSE i \in DOMAIN members :
                              /\ members[i].k = key
                              /\ \A n \in DOMAIN members : members[n].k = key => n <= i
               IN IF members[last].v.kind = "string" THEN members[last].v.val ELSE ""
          ELSE old[key]]

\* what a nil or non-nil map or slice holds
Held(ref) == IF ref = <<>> THEN <<>> ELSE ref[1]

\* the texts time.Time's UnmarshalJSON parses (RFC 3339); any other text of the
\* model does not parse
Timestamps ==
    {"0001-01-01T00:00:00Z", "1970-01-01T00:00:00Z", "2024-05-01T12:00:00Z",
     "2024-05-01T12:00:01Z"}

RECURSIVE Unmarshal(_, _, _, _)

\* a JSON value decoded into the Go value old of a field, back being the
\* backing array of a slice: the value the field is left with, the backing
\* array it is left with, whether the value was stored without an error, and
\* whether the decoding halts there.  A value of the wrong type is an
\* UnmarshalTypeError: the field is left alone, Unmarshal goes on and returns
\* the error at the end.  A time.Time is decoded by its UnmarshalJSON, whose
\* error Unmarshal returns at once: a value that is no string leaves the field
\* alone, a string that does not parse leaves the zero time.  null empties a
\* map or a slice and leaves anything else alone; an object is decoded into
\* the struct or the map that is there and an array into the slice that is
\* there, not into a new one; an empty array leaves a new empty slice.
StoreValue(field, old, back, val) ==
    CASE val.kind = "null" ->
           [v |-> IF field.kind \in {"map", "strings"} THEN <<>> ELSE old, ok |-> TRUE,
            halt |-> FALSE, back |-> <<>>]
      [] field.kind = "time" ->
           IF val.kind = "string" /\ val.val \in Timestamps
           THEN [v |-> val.val, ok |-> TRUE, halt |-> FALSE, back |-> <<>>]
           ELSE [v |-> IF val.kind = "string" THEN ZeroTime ELSE old, ok |-> FALSE,
                 halt |-> TRUE, back |-> <<>>]
      [] val.kind = "string" /\ field.kind = "string" ->
           [v |-> val.val, ok |-> TRUE, halt |-> FALSE, back |-> <<>>]
      [] val.kind = "number" /\ field.kind = "int" ->
           [v |-> val.val, ok |-> TRUE, halt |-> FALSE, back |-> <<>>]
      [] val.kind = "bool" /\ field.kind = "bool" ->
           [v |-> val.val, ok |-> TRUE, halt |-> FALSE, back |-> <<>>]
      [] val.kind = "array" /\ field.kind = "strings" ->
           IF Len(val.val) = 0
           THEN [v |-> << <<>> >>, ok |-> TRUE, halt |-> FALSE, back |-> <<>>]
           ELSE CHOOSE r \in { [v |-> <<SubSeq(b, 1, Len(val.val))>>,
                                ok |-> \A i \in DOMAIN val.val :
                                          val.val[i].kind \in {"string", "null"},
                                halt |-> FALSE,
                                back |-> b] : b \in {StringsOf(back, val.val)} } : TRUE
      [] val.kind = "object" /\ field.kind = "map" ->
           [v |-> <<MapOf(Held(old), val.val)>>,
            ok |-> \A i \in DOMAIN val.val : val.val[i].v.kind \in {"string", "null"},
            halt |-> FALSE, back |-> <<>>]
      [] val.kind = "object" /\ field.kind = "struct" ->
           CHOOSE r \in { [v |-> u.v, ok |-> u.ok, halt |-> u.halt, back |-> <<>>] :
                           u \in {Unmarshal(field.fields, old, val.val, Len(val.val))} } : TRUE
      [] OTHER -> [v |-> old, ok |-> FALSE, halt |-> FALSE, back |-> back]

\* one member of the document stored in the struct decoded so far; nothing is
\* stored once the decoding has halted
StoreMember(fields, acc, m) ==
    CHOOSE r \in { IF i = 0 \/ acc.halt THEN acc
                   ELSE CHOOSE t \in { [v |-> [acc.v EXCEPT ![fields[i].name] = s.v],
                                        ok |-> acc.ok /\ s.ok,
                                        halt |-> s.halt,
                                        spare |-> IF fields[i].kind = "strings"
                                                  THEN [acc.spare EXCEPT
                                                          ![fields[i].name] = s.back]
                                                  ELSE acc.spare] :
                                       s \in {StoreValue(fields[i], acc.v[fields[i].name],
                                                         IF fields[i].kind = "strings"
                                                         THEN acc.spare[fields[i].name]
                                                         ELSE <<>>,
                                                         m.v)} } : TRUE :
                   i \in {FieldFor(fields, m.k)} } : TRUE

\* json.Unmarshal of the first n members of an object into a struct that holds
\* zero: the members are stored one after another, in the order of the
\* document, until an Unmarshaler fails.  v is the struct it leaves, ok
\* whether it returns no error, halt whether it returned before the end of
\* the document, spare the backing arrays of the struct's slices.
Unmarshal(fields, zero, members, n) ==
    IF n = 0
    THEN [v |-> zero, ok |-> TRUE, halt |-> FALSE,
          spare |-> [name \in { fields[i].name :
                                 i \in {x \in DOMAIN fields : fields[x].kind = "strings"} }
                       |-> <<>>]]
    ELSE CHOOSE r \in { StoreMember(fields, acc, members[n]) :
                        acc \in {Unmarshal(fields, zero, members, n - 1)} } : TRUE

\* whether key a sorts before key b: json.Marshal writes the keys of a map in
\* the order of their bytes, which is the order of their runes
KeyBefore(a, b) ==
    \E i \in 1..Len(b) :
        /\ \A n \in 1..(i - 1) : n <= Len(a) /\ a[n] = b[n]
        /\ i > Len(a) \/ a[i] < b[i]

\* the members json.Marshal writes for a map[string]string
MapMembers(m) ==
    [i \in 1..Cardinality(DOMAIN m) |->
        LET key == CHOOSE x \in DOMAIN m :
                      Cardinality({y \in DOMAIN m : KeyBefore(y, x)}) = i - 1
        IN [k |-> key, v |-> JsonString(m[key])]]

RECURSIVE Marshal(_, _)

\* the JSON value json.Marshal writes for the Go value x of a field: null for
\* a nil map or slice
ToJson(field, x) ==
    CASE field.kind \in {"string", "time"} -> JsonString(x)
      [] field.kind = "int" -> JsonNumber(x)
      [] field.kind = "bool" -> JsonBool(x)
      [] field.kind = "strings" ->
           IF x = <<>> THEN JsonNull
           ELSE JsonArray([i \in DOMAIN x[1] |-> JsonString(x[1][i])])
      [] field.kind = "map" ->
           IF x = <<>> THEN JsonNull ELSE JsonObject(MapMembers(x[1]))
      [] OTHER -> JsonObject(Marshal(field.fields, x))

\* json.Marshal of a struct: a member for every field, under the key of its
\* tag, in the order of the fields
Marshal(fields, v) ==
    [i \in DOMAIN fields |-> [k |-> fields[i].tag, v |-> ToJson(fields[i], v[fields[i].name])]]

\* a JSON object with one of its keys spelled another way
Respell(obj, key, as) ==
    [i \in DOMAIN obj |-> IF obj[i].k = Chars(key) THEN [obj[i] EXCEPT !.k = Chars(as)]
                          ELSE obj[i]]

\* jobs.JobDefinition{}: the zero value
ZeroJob == MkJob("", "", 0, "", "", FALSE, "", <<>>, <<>>)

\* json.Marshal of a JobDefinition
EncodeJob(j) == Marshal(JobFields, j)

\* var job jobs.JobDefinition; json.Unmarshal(obj, &job): the job, and whether
\* err is nil
DecodeJob(obj) == Unmarshal(JobFields, ZeroJob, obj, Len(obj))

\* json.Marshal of a Result
EncodeResult(r) == Marshal(ResultFields, r)

\* var result jobs.Result; json.Unmarshal(obj, &result)
DecodeResult(obj) == Unmarshal(ResultFields, ZeroResult, obj, Len(obj))

\* Store.Enqueue as one step: the queue and records it leaves, and its error
EnqueueApply(q, recs, job) ==
    IF Validate(job) # ""
    THEN [queue |-> q, records |-> recs, err |-> Validate(job)]
    ELSE IF EnqueueExists(recs, job)
    THEN [queue |-> q, records |-> recs, err |-> "job already exists"]
    ELSE [queue |-> EnqueueQueue(q, job.ID), records |-> EnqueueRecords(recs, job),
          err |-> ""]

\* Store.Next as one step: the queue and records it leaves, and the job
\* returned (<<>> for nil, false)
NextApply(q, recs) ==
    IF Len(q) = 0
    THEN [queue |-> q, records |-> recs, job |-> <<>>]
    ELSE [queue |-> NextQueue(q), records |-> NextRecords(recs, q[1]),
          job |-> <<recs[q[1]].job>>]

\* what a handler leaves: the response and the store
Response(code, body, q, recs) ==
    [code |-> code, body |-> body, queue |-> q, records |-> recs]

\* handleSubmit: POST /v1/jobs
HandleSubmit(q, recs, body) ==
    IF ~body.json THEN Response(400, TextBody("invalid job payload"), q, recs)
    ELSE \* var job jobs.JobDefinition; err := Decode(&job); err = store.Enqueue(job)
         CHOOSE answer \in
            { IF ~job.ok THEN Response(400, TextBody("invalid job payload"), q, recs)
              ELSE LET e == EnqueueApply(q, recs, job.v)
                   IN IF e.err # "" THEN Response(400, TextBody(e.err), q, recs)
                      ELSE Response(202, NoBody, e.queue, e.records) :
              job \in {DecodeJob(body.obj)} } : TRUE

\* if result.JobID == "" { result.JobID = jobID }
ResultJobID(pathID, result) ==
    IF result.JobID = "" THEN [result EXCEPT !.JobID = pathID] ELSE result

\* handleResult: POST /v1/jobs/{pathID}/results
HandleResult(q, recs, pathID, body) ==
    IF pathID = "" THEN Response(400, TextBody("missing job id"), q, recs)
    ELSE IF ~body.json THEN Response(400, TextBody("invalid result payload"), q, recs)
    ELSE \* var result jobs.Result; err := Decode(&result); err = store.Complete(result)
         CHOOSE answer \in
            { IF ~result.ok THEN Response(400, TextBody("invalid result payload"), q, recs)
              ELSE LET c == CompleteApply(recs, ResultJobID(pathID, result.v))
                   IN IF c.err # "" THEN Response(400, TextBody(c.err), q, recs)
                      ELSE Response(202, NoBody, q, c.recs) :
              result \in {DecodeResult(body.obj)} } : TRUE

\* the ServeMux in front of handleResult: a path it has to clean, as
\* /v1/jobs//results is, it answers with a redirect to the clean path, and
\* calls no handler
RouteResult(q, recs, pathID, body) ==
    IF pathID = "" THEN Response(301, NoBody, q, recs)
    ELSE HandleResult(q, recs, pathID, body)

\* handleStatus: GET /v1/jobs/{pathID}
HandleStatus(q, recs, pathID) ==
    IF pathID = "" \/ ~LookupRecords(recs, pathID).found
    THEN Response(404, TextBody("404 page not found"), q, recs)
    ELSE IF LookupRecords(recs, pathID).result = <<>>
    THEN Response(202, JsonBody(<<Member("status", JsonString(LookupRecords(recs, pathID).status))>>), q, recs)
    ELSE Response(200, JsonBody(EncodeResult(LookupRecords(recs, pathID).result[1])),
                  q, recs)

\* handleNext: GET /v1/queue/next
HandleNext(q, recs) ==
    LET n == NextApply(q, recs)
    IN IF n.job = <<>> THEN Response(204, NoBody, q, recs)
       ELSE Response(200, JsonBody(EncodeJob(n.job[1])), n.queue, n.records)

\* =====================================================================
\* The transports (pkg/transport) and the agent loop (cmd/engine)
\* =====================================================================
\* ------------------------------------------------- FilesystemTransport
\* a file name is the sequence of its dot-separated parts: a.job.json is
\* <<"a", "job", "json">>
\* filepath.Ext without its dot: the part after the last dot, "" without a dot
Ext(name) == IF Len(name) >= 2 THEN name[Len(name)] ELSE ""

\* strings.TrimSuffix(path, filepath.Ext(path))
TrimExt(name) == IF Len(name) >= 2 THEN SubSeq(name, 1, Len(name) - 1) ELSE name

\* the two tests of the WalkDir callback: *.job.json
IsJobFile(name) == Ext(name) = "json" /\ Ext(TrimExt(name)) = "job"

\* jobPath + ".result.json"
ResultPath(path) == path \o <<"result", "json">>

\* the file names of the model in the lexical order WalkDir visits them
WalkOrder ==
    << <<"a", "job", "json">>, ResultPath(<<"a", "job", "json">>),
       <<"b", "job", "json">>, ResultPath(<<"b", "job", "json">>),
       <<"job", "json">>, <<"notes", "txt">> >>

\* the file a job is submitted as
JobFile(job) == JsonBody(EncodeJob(job))

BlankPasswordJob ==
    [GoodJob("j1", "echo hi") EXCEPT !.Credentials.Password = Chars(" ")]

\* the inbox as the agent finds it: two jobs; a job behind files that are not
\* job files; a job behind an unparsable job file; a job behind one Validate
\* rejects; a job that requests a PTY; nothing
InboxConfigs ==
    { [n \in {<<"a", "job", "json">>, <<"b", "job", "json">>} |->
          IF n[1] = "a" THEN JobFile(GoodJob("j1", "echo hi"))
          ELSE JobFile(GoodJob("j2", "ls"))],
      [n \in {<<"job", "json">>, <<"notes", "txt">>, <<"b", "job", "json">>} |->
          IF n[1] = "notes" THEN TextBody("todo") ELSE JobFile(GoodJob("j2", "ls"))],
      [n \in {<<"a", "job", "json">>, <<"b", "job", "json">>} |->
          IF n[1] = "a" THEN TextBody("{") ELSE JobFile(GoodJob("j2", "ls"))],
      [n \in {<<"a", "job", "json">>, <<"b", "job", "json">>} |->
          IF n[1] = "a" THEN JobFile(BlankPasswordJob)
          ELSE JobFile(GoodJob("j2", "ls"))],
      [n \in {<<"b", "job", "json">>} |-> JobFile(TTYJob)],
      <<>> }

\* what a poll gives NextJob: a job with its token, an error, or nothing
Polled(kind, job, token, err) ==
    [kind |-> kind, job |-> job, token |-> token, err |-> err]

\* scanInbox: the first job file in walk order, read, parsed and validated
ScanInbox(files) ==
    LET found == { i \in DOMAIN WalkOrder :
                     WalkOrder[i] \in DOMAIN files /\ IsJobFile(WalkOrder[i]) }
    IN IF found = {} THEN Polled("retry", <<>>, <<>>, "")
       ELSE LET selected == WalkOrder[CHOOSE i \in found : \A k \in found : i <= k]
            IN IF ~files[selected].json
               THEN Polled("retry", <<>>, <<>>, "invalid character")
               ELSE \* var job jobs.JobDefinition; json.Unmarshal(fileData, &job)
                    CHOOSE p \in { IF ~job.ok
                                   THEN Polled("retry", <<>>, <<>>, "cannot unmarshal")
                                   ELSE IF Validate(job.v) # ""
                                   THEN Polled("retry", <<>>, <<>>, Validate(job.v))
                                   ELSE Polled("job", <<job.v>>, selected, "") :
                                   job \in {DecodeJob(files[selected].obj)} } : TRUE

\* the directory with a file created, or truncated, and left with a content
WriteFile(files, name, content) ==
    [n \in (DOMAIN files) \cup {name} |-> IF n = name THEN content ELSE files[n]]

\* os.WriteFile opens the file, creating or truncating it, writes and closes:
\* it writes the payload, or fails before the file is opened, or fails after,
\* with nothing or a beginning of the payload in the file
WriteOutcomes == {"written", "not opened", "empty", "cut short"}

\* FilesystemTransport.WriteResult: the inbox it leaves
WriteResultFile(files, path, result, outcome) ==
    CASE outcome = "written" ->
           WriteFile(files, ResultPath(path), JsonBody(EncodeResult(result)))
      [] outcome = "empty" -> WriteFile(files, ResultPath(path), TextBody(""))
      [] outcome = "cut short" -> WriteFile(files, ResultPath(path), TextBody("{"))
      [] OTHER -> files

\* ------------------------------------------------------- HTTPTransport
\* what client.Do and io.ReadAll give: the controller's answer; a connection
\* that is refused ("refused"); a request the controller served whose answer
\* does not arrive before Client.Timeout ("timeout"); or a body that cannot be
\* read ("read"); with it the store the controller is left with
Reply(fault, answer) ==
    [fault |-> fault, code |-> answer.code, body |-> answer.body,
     queue |-> answer.queue, records |-> answer.records]

\* the answers to GET /v1/queue/next: the controller's, or one the network or
\* something in front of the controller makes up
NextReplies(q, recs) ==
    { Reply("none", HandleNext(q, recs)),
      Reply("read", HandleNext(q, recs)),
      Reply("timeout", HandleNext(q, recs)),
      Reply("refused", Response(0, NoBody, q, recs)),
      Reply("none", Response(502, TextBody("bad gateway"), q, recs)),
      Reply("none", Response(200, TextBody("<html>"), q, recs)),
      Reply("none", Response(200, JsonBody(EncodeJob(BlankPasswordJob)), q, recs)) }

\* mutant: any answer that is not a job makes NextJob poll again
HttpNextJobRetriesAll(reply) ==
    IF reply.fault = "none" /\ reply.code = 200 /\ reply.body.json
    THEN CHOOSE p \in { IF job.ok /\ Validate(job.v) = ""
                        THEN Polled("job", <<job.v>>, <<job.v.ID>>, "")
                        ELSE Polled("retry", <<>>, <<>>, "") :
                        job \in {DecodeJob(reply.body.obj)} } : TRUE
    ELSE Polled("retry", <<>>, <<>>, "")

\* one iteration of HTTPTransport.NextJob's loop after the select
HttpNextJob(reply) ==
    IF reply.fault \in {"refused", "timeout"} THEN Polled("retry", <<>>, <<>>, "")
    ELSE IF reply.fault = "read" THEN Polled("error", <<>>, <<>>, "unexpected EOF")
    ELSE IF reply.code = 204 THEN Polled("retry", <<>>, <<>>, "")
    ELSE IF reply.code = 200
    THEN IF ~reply.body.json THEN Polled("error", <<>>, <<>>, "invalid character")
         ELSE \* var job jobs.JobDefinition; json.Unmarshal(body, &job)
              CHOOSE p \in { IF ~job.ok
                             THEN Polled("error", <<>>, <<>>, "cannot unmarshal")
                             ELSE IF Validate(job.v) # ""
                             THEN Polled("error", <<>>, <<>>, Validate(job.v))
                             ELSE Polled("job", <<job.v>>, <<job.v.ID>>, "") :
                             job \in {DecodeJob(reply.body.obj)} } : TRUE
    ELSE Polled("error", <<>>, <<>>, "controller returned")

\* the status codes a server may answer POST /v1/jobs/{id}/results with
PostCodes == {200, 202, 204, 400, 404, 500}

\* the answers to POST /v1/jobs/{jobID}/results: the controller's; the
\* controller's when it does not arrive before Client.Timeout or its body
\* cannot be read, the request having been served; none, the connection being
\* refused; or one that something in front of the controller makes up
ResultReplies(q, recs, jobID, body) ==
    { Reply(fault, answer) : fault \in {"none", "read", "timeout"},
                             answer \in {RouteResult(q, recs, jobID, body)} }
        \cup { Reply("refused", Response(0, NoBody, q, recs)) }
        \cup { Reply("none", Response(c, b, q, recs)) :
                 c \in PostCodes, b \in {NoBody, TextBody("oops")} }

\* HTTPTransport.WriteResult once the request is built: the error it returns,
\* "" for nil
HttpWriteResult(reply) ==
    IF reply.fault \in {"refused", "timeout"} THEN "request failed"
    ELSE IF reply.fault = "read" THEN "unexpected EOF"
    ELSE IF reply.code # 202 THEN "controller rejected result"
    ELSE ""

\* ---------------------------------------------------------- agent loop
\* the configurations the agent runs under
AgentConfigs ==
    { [exec |-> c, allow |-> a] :
        c \in {x \in ExecConfigs : x.Password = "secret" /\ x.HostKeyFingerprints # <<>>},
        a \in AllowLists }

\* the engine starts, as main builds it: a FilesystemTransport over the inbox
\* directory, the signal goroutine waiting, the loop about to call NextJob
AgentInit ==
    /\ NewStore
    /\ ExecOff
    /\ SideOff
    /\ apc = "select"
    /\ stop = FALSE
    /\ sigpc = "wait"
    /\ actx = "live"
    /\ tkind = "fs"
    /\ inbox \in InboxConfigs
    /\ acfg \in AgentConfigs
    /\ ajob = <<>>
    /\ aerr = ""
    /\ ahist = NoHistory

\* history: Execute is invoked for a token
NoteExecute(h, token) ==
    [h EXCEPT !.executed = @ \cup {token},
              !.executedTwice = IF token \in h.executed THEN @ \cup {token} ELSE @,
              !.iterExec = IF @ < 2 THEN @ + 1 ELSE @]

\* history: WriteResult is attempted for a token, and whether it succeeded
NoteWrite(h, token, ok) ==
    [h EXCEPT !.written = IF ok THEN @ \cup {token} ELSE @,
              !.writtenTwice = IF ok /\ token \in h.written THEN @ \cup {token} ELSE @,
              !.iterWrite = IF @ < 2 THEN @ + 1 ELSE @]

\* history: NextJob returned a job
NoteFetch(h, token) ==
    [h EXCEPT !.fetched = @ \cup {token}, !.iterExec = 0, !.iterWrite = 0]

\* history: a poll begins (late: with stop closed), a poll ends (after stop)
NotePollBegins(h, closed) ==
    [h EXCEPT !.latePolls = IF closed /\ @ < 1 THEN @ + 1 ELSE @]

NotePollEnds(h, closed) ==
    [h EXCEPT !.stopPolls = IF closed /\ @ < 2 THEN @ + 1 ELSE @]

\* mutant: the select always takes its default branch
StopReadyNever(closed) == FALSE

\* case <-stop: a closed channel is ready, and default runs only when no case is
StopReady(closed) == closed

\* NextJob: select { case <-stop: return "polling stopped"; default: poll }
AgentSelect ==
    /\ apc = "select"
    /\ IF StopReady(stop)
       THEN apc' = "nexterr" /\ aerr' = "polling stopped" /\ ahist' = ahist
       ELSE apc' = "poll" /\ aerr' = "" /\ ahist' = NotePollBegins(ahist, stop)
    /\ UNCHANGED <<sideVars, stop, sigpc, actx, tkind, inbox, acfg, ajob, storeVars, execVars>>

\* NextJob returns what the poll gave it, or sleeps and loops
AgentPolled(p) ==
    /\ apc' = CASE p.kind = "job" -> "fetched"
                [] p.kind = "error" -> "nexterr"
                [] OTHER -> "select"
    /\ ajob' = IF p.kind = "job" THEN <<[job |-> p.job[1], path |-> p.token]>> ELSE <<>>
    /\ aerr' = IF p.kind = "error" THEN p.err ELSE ""
    /\ ahist' = IF p.kind = "job" THEN NoteFetch(NotePollEnds(ahist, stop), p.token)
                ELSE NotePollEnds(ahist, stop)

\* FilesystemTransport.NextJob, default branch: scanInbox, else time.Sleep
AgentScan ==
    /\ apc = "poll"
    /\ tkind = "fs"
    /\ \E p \in {ScanInbox(inbox)} : AgentPolled(p)
    /\ UNCHANGED <<sideVars, stop, sigpc, actx, tkind, inbox, acfg, storeVars, execVars>>

\* HTTPTransport.NextJob, default branch: GET /v1/queue/next
RequestStep(reply) ==
    /\ apc = "poll"
    /\ tkind = "http"
    /\ \E p \in {HttpNextJob(reply)} : AgentPolled(p)
    /\ queue' = reply.queue
    /\ records' = reply.records
    /\ UNCHANGED <<stop, sigpc, actx, tkind, inbox, acfg, mu, pc, frame, historyVars,
                   execVars>>

\* stopped(stop)
Stopped(closed) == closed

\* if err != nil { if stopped(stop) { return }; log; continue }
AgentNextErr ==
    /\ apc = "nexterr"
    /\ apc' = IF Stopped(stop) THEN "stopped" ELSE "select"
    /\ UNCHANGED <<sideVars, stop, sigpc, actx, tkind, inbox, acfg, ajob, aerr, ahist, storeVars,
                   execVars>>

\* jobCtx := context.WithTimeout(ctx, ...); exec.Execute(jobCtx, *job,
\* buildCredentials(*job, cfg.Execution, key)) is called
AgentExecute(key) ==
    /\ apc = "fetched"
    /\ apc' = "exec"
    /\ xpc' = "validate"
    /\ xin' = [job |-> ajob[1].job, creds |-> BuildCredentials(ajob[1].job, acfg.exec),
               allow |-> acfg.allow, hostKey |-> key,
               pins |-> acfg.exec.HostKeyFingerprints]
    /\ xctx' = actx
    /\ xremote' = "idle"
    /\ xdone' = <<>>
    /\ xret' = <<>>
    /\ xpath' = ""
    /\ xdialed' = FALSE
    /\ ahist' = NoteExecute(ahist, ajob[1].path)
    /\ UNCHANGED <<sideVars, stop, sigpc, actx, tkind, inbox, acfg, ajob, aerr, storeVars>>

\* the deadline of jobCtx passes while Execute runs
AgentDeadline == apc = "exec" /\ xpc # "off" /\ CtxDone("deadline")

\* mutant: the loop exits when Execute returns an error
AfterExecuteExitsOnError(execErr) == IF execErr # NilErr THEN "stopped" ELSE "report"

\* if execErr != nil { log }: the loop goes on to WriteResult either way
AfterExecute(execErr) == "report"

\* Execute returned; jobCancel()
AgentExecuted ==
    /\ apc = "exec"
    /\ xpc = "done"
    /\ apc' = AfterExecute(xret[1].err)
    /\ UNCHANGED <<sideVars, stop, sigpc, actx, tkind, inbox, acfg, ajob, aerr, ahist, storeVars,
                   execVars>>

\* the iteration ends: job, jobPath, result and execErr go out of scope
IterationEnds ==
    /\ ajob' = <<>>
    /\ xpc' = "off"
    /\ xin' = <<>>
    /\ xctx' = "live"
    /\ xremote' = "idle"
    /\ xdone' = <<>>
    /\ xret' = <<>>
    /\ xpath' = ""
    /\ xdialed' = FALSE

\* mutant: a failed write is attempted again
AfterWriteRetries(writeErr) == IF writeErr # "" THEN "report" ELSE "select"

\* if err := transport.WriteResult(...); err != nil { log } else { log }
AfterWrite(writeErr) == "select"

\* FilesystemTransport.WriteResult(jobPath, result)
AgentWriteFile(outcome) ==
    /\ apc = "report"
    /\ tkind = "fs"
    /\ inbox' = WriteResultFile(inbox, ajob[1].path, xret[1].result, outcome)
    /\ aerr' = IF outcome = "written" THEN "" ELSE "write failed"
    /\ apc' = AfterWrite(aerr')
    /\ ahist' = NoteWrite(ahist, ajob[1].path, outcome = "written")
    /\ IF apc' = "select" THEN IterationEnds ELSE UNCHANGED <<ajob, execVars>>
    /\ UNCHANGED <<sideVars, stop, sigpc, actx, tkind, acfg, storeVars>>

\* HTTPTransport.WriteResult(jobID, result), called and returning: no request
\* for a blank job ID, else POST /v1/jobs/{jobID}/results with
\* json.Marshal(result)
PostResult ==
    /\ apc = "report"
    /\ tkind = "http"
    /\ \E jobID \in {ajob[1].path[1]} :
          IF TrimSpace(Chars(jobID)) = <<>>
          THEN /\ aerr' = "job id required for result submission"
               /\ UNCHANGED <<queue, records, hlast>>
          ELSE \E reply \in ResultReplies(queue, records, jobID,
                                          JsonBody(EncodeResult(xret[1].result))) :
                  /\ aerr' = HttpWriteResult(reply)
                  /\ queue' = reply.queue
                  /\ records' = reply.records
                  /\ hlast' = [req |-> "result", id |-> jobID, code |-> reply.code,
                               body |-> reply.body, empty |-> FALSE, fault |-> reply.fault]
    /\ apc' = "returned"
    /\ ahist' = NoteWrite(ahist, ajob[1].path, aerr' = "")
    /\ UNCHANGED <<stop, sigpc, actx, tkind, inbox, acfg, ajob, mu, pc, frame, historyVars,
                   execVars, gateVars, hphase, aliasVars>>

\* the signal goroutine: <-sigCh; close(stop)
SignalClose ==
    /\ sigpc = "wait"
    /\ apc \notin {"off", "stopped"}
    /\ sigpc' = "closed"
    /\ stop' = TRUE
    /\ UNCHANGED <<sideVars, apc, actx, tkind, inbox, acfg, ajob, aerr, ahist, storeVars, execVars>>

\* mutant: cancel() leaves a derived context alone
CancelDerivedNever(derived, running) == derived

\* what cancel() does to a context derived from ctx while Execute runs with it
CancelDerived(derived, running) ==
    IF running /\ derived = "live" THEN "canceled" ELSE derived

\* the signal goroutine: cancel()
SignalCancel ==
    /\ sigpc = "closed"
    /\ apc \notin {"off", "stopped"}
    /\ sigpc' = "cancelled"
    /\ actx' = "canceled"
    /\ xctx' = CancelDerived(xctx, apc = "exec" /\ xpc # "done")
    /\ UNCHANGED <<sideVars, apc, stop, tkind, inbox, acfg, ajob, aerr, ahist, storeVars,
                   xpc, xin, xremote, xdone, xret, xpath, xdialed>>

\* the loop is inside its call of Execute
Executing == apc = "exec"

AgentNext ==
    \/ AgentSelect
    \/ AgentScan
    \/ AgentNextErr
    \/ \E key \in HostKeys : AgentExecute(key)
    \/ Executing /\ ExecValidate
    \/ Executing /\ ExecCredentials
    \/ Executing /\ \E reachable \in BOOLEAN : ExecDial(reachable)
    \/ Executing /\ \E authOK \in BOOLEAN : ExecHandshake(authOK)
    \/ Executing /\ \E opened \in BOOLEAN : ExecNewSession(opened)
    \/ Executing /\ \E granted \in BOOLEAN : ExecRequestPty(granted)
    \/ Executing /\ ExecRun
    \/ Executing /\ \E outcome \in RunOutcomes : RemoteDone(outcome)
    \/ Executing /\ \E out \in StdoutSoFar : ExecSelectCtx(out)
    \/ Executing /\ ExecSelectDone
    \/ AgentDeadline
    \/ AgentExecuted
    \/ \E outcome \in WriteOutcomes : AgentWriteFile(outcome)
    \/ SignalClose
    \/ SignalCancel

AgentSpec == AgentInit /\ [][AgentNext]_vars

\* =====================================================================
\* The places where JobDefinition.Validate guards an entry
\* =====================================================================
\* values a text field of a job file or payload may hold: missing or present
GateTexts == {"", "x"}

\* values a credential may hold: missing; blank (a space, a tab and a space, a
\* form feed, a no-break space and a vertical tab, an em space); present ("p",
\* "e" with an acute accent, a zero-width space); present between blanks
GateSecrets ==
    { <<>>, <<32>>, <<9, 32>>, <<12>>, <<160, 11>>, <<8195>>, <<112>>, <<233>>, <<8203>>,
      <<32, 112>>, <<133, 112, 5760>> }

\* the jobs put before the gates: every combination of missing and present
\* fields; a checksum that is present is the digest of the command
GateJobs ==
    { MkJob(id, host, port, user, cmd, FALSE,
            IF sum = "" THEN "" ELSE Sha256Hex(cmd), uname, pw) :
        id \in GateTexts, host \in GateTexts, port \in {0}, user \in GateTexts,
        cmd \in {"", "ls"}, sum \in GateTexts,
        uname \in GateSecrets, pw \in {<<>>, <<32>>, <<133>>, <<12288>>, <<112>>, <<8364>>} }

\* the entries a job can come in through
Gates == {"enqueue", "scan", "http", "execute"}

\* whether the entry lets the job in: Enqueue files it, NextJob returns it,
\* validateJob lets Execute go on to the dial
GateAccepts(g, job) ==
    CASE g = "enqueue" -> EnqueueApply(<<>>, <<>>, job).err = ""
      [] g = "scan" ->
           ScanInbox([n \in {<<"a", "job", "json">>} |-> JobFile(job)]).kind = "job"
      [] g = "http" ->
           HttpNextJob(Reply("none", Response(200, JobFile(job), <<>>, <<>>))).kind = "job"
      [] OTHER -> \E allow \in AllowLists : ValidateJob(allow, job) = NilErr

\* a job is about to be offered to the entries
GateInit ==
    /\ NewStore
    /\ ExecOff
    /\ AgentOff
    /\ hlast = NoRequest
    /\ hphase = <<>>
    /\ heap = <<>>
    /\ held = {}
    /\ \E job \in GateJobs : gate = [job |-> <<job>>, tried |-> {}, passed |-> {}]

\* the job is offered to one entry
GateTry(g) ==
    /\ g \notin gate.tried
    /\ gate' = [gate EXCEPT !.tried = @ \cup {g},
                            !.passed = IF GateAccepts(g, gate.job[1]) THEN @ \cup {g} ELSE @]
    /\ UNCHANGED <<storeVars, execVars, agentVars, httpVars, aliasVars>>

GateNext == \E g \in Gates : GateTry(g)

GateSpec == GateInit /\ [][GateNext]_vars

\* =====================================================================
\* Clients of the controller's HTTP API
\* =====================================================================
\* the bodies clients POST to /v1/jobs: two jobs; a job whose id key is spelled
\* ID; a job with an id member and a later ID member; a job with a second
\* credentials member that holds a username only; a job with a later id member
\* that is null; a job whose target_port is a string; a job Validate rejects;
\* and text that is not JSON
SubmitBodies ==
    { JobFile(GoodJob("j1", "echo hi")), JobFile(GoodJob("j2", "ls")),
      JsonBody(Respell(EncodeJob(GoodJob("j2", "ls")), "id", "ID")),
      JsonBody(Append(EncodeJob(GoodJob("j2", "echo hi")), Member("ID", JsonString("j1")))),
      JsonBody(Append(EncodeJob([GoodJob("j2", "ls") EXCEPT !.Credentials.Username = Chars("h")]),
                      Member("credentials",
                             JsonObject(<<Member("username", JsonString(Chars("u")))>>)))),
      JsonBody(Append(EncodeJob(GoodJob("j1", "echo hi")), Member("id", JsonNull))),
      JsonBody(Append(EncodeJob(GoodJob("j1", "echo hi")),
                      Member("target_port", JsonString("22")))),
      JobFile(BlankPasswordJob), TextBody("{") }

\* the bodies clients POST to /v1/jobs/{id}/results: a result that names j1;
\* one that names j2; one that names no job; the Result Execute returns when
\* the PTY is refused; and text that is not JSON
ResultBodies ==
    { JsonBody(EncodeResult(MkResult("j1", StatusSucceeded, 0, "hi", "", "", NilMap))),
      JsonBody(EncodeResult(MkResult("j2", StatusFailed, 1, "", "",
                                     "Process exited with status 1", NilMap))),
      JsonBody(<< Member("status", JsonString(StatusFailed)),
                  Member("exit_code", JsonNumber(-1)),
                  Member("error", JsonString("checksum mismatch")) >>),
      JsonBody(EncodeResult(ZeroResult)),
      TextBody("{") }

\* the job IDs clients put in a path: two they submit, one nobody submits, none
PathIDs == JobIDs \cup {UnknownID, ""}

\* the controller starts with an empty store
HttpInit ==
    /\ NewStore
    /\ ExecOff
    /\ AgentOff
    /\ gate = NoGate
    /\ heap = <<>>
    /\ held = {}
    /\ hlast = NoRequest
    /\ hphase = <<>>

\* the request served last and its response
Served(req, id, answer, empty) ==
    [req |-> req, id |-> id, code |-> answer.code, body |-> answer.body, empty |-> empty,
     fault |-> "none"]

\* history: the lifecycle answer the API gave last about a job ID
Phase(ph, id, phase, posted) ==
    [k \in (DOMAIN ph) \cup {id} |->
        IF k = id THEN [phase |-> phase, posted |-> posted] ELSE ph[k]]

\* POST /v1/jobs
HttpSubmit(body) ==
    \E answer \in {HandleSubmit(queue, records, body)} :
       /\ queue' = answer.queue
       /\ records' = answer.records
       /\ hlast' = Served("submit", "", answer, FALSE)
       /\ hphase' = IF answer.code = 202
                    THEN CHOOSE ph \in { Phase(hphase, id, "submitted", <<>>) :
                                          id \in {DecodeJob(body.obj).v.ID} } : TRUE
                    ELSE hphase
       /\ UNCHANGED <<mu, pc, frame, historyVars, execVars, agentVars, gateVars, aliasVars>>

\* GET /v1/queue/next
HttpNext ==
    \E answer \in {HandleNext(queue, records)} :
       /\ queue' = answer.queue
       /\ records' = answer.records
       /\ hlast' = Served("next", "", answer, Len(queue) = 0)
       /\ hphase' = IF answer.code = 200
                    THEN CHOOSE ph \in { Phase(hphase, id, "fetched", <<>>) :
                                          id \in {DecodeJob(answer.body.obj).v.ID} } : TRUE
                    ELSE hphase
       /\ UNCHANGED <<mu, pc, frame, historyVars, execVars, agentVars, gateVars, aliasVars>>

\* POST /v1/jobs/{pathID}/results
HttpResult(pathID, body) ==
    \E answer \in {RouteResult(queue, records, pathID, body)} :
       /\ queue' = answer.queue
       /\ records' = answer.records
       /\ hlast' = Served("result", pathID, answer, FALSE)
       /\ hphase' = IF answer.code = 202
                    THEN CHOOSE ph \in { Phase(hphase, pathID, "resulted", <<posted>>) :
                                          posted \in {ResultJobID(pathID,
                                                                  DecodeResult(body.obj).v)} }
                                : TRUE
                    ELSE hphase
       /\ UNCHANGED <<mu, pc, frame, historyVars, execVars, agentVars, gateVars, aliasVars>>

\* GET /v1/jobs/{pathID}
HttpStatus(pathID) ==
    \E answer \in {HandleStatus(queue, records, pathID)} :
       /\ hlast' = Served("status", pathID, answer, FALSE)
       /\ UNCHANGED <<storeVars, hphase, execVars, agentVars, gateVars, aliasVars>>

HttpNextStep ==
    \/ \E body \in SubmitBodies : HttpSubmit(body)
    \/ HttpNext
    \/ \E pathID \in PathIDs, body \in ResultBodies : HttpResult(pathID, body)
    \/ \E pathID \in PathIDs : HttpStatus(pathID)

HttpSpec == HttpInit /\ [][HttpNextStep]_vars

\* =====================================================================
\* Callers that share maps and slices with the store (Go reference values)
\* =====================================================================
\* a map or slice field holds a reference: <<>> for nil, <<a>> for the object
\* at address a; copying a struct copies the reference, not the object
\* the objects callers make: the Metadata map and the Arguments array of a
\* job, the Metadata map of a result
Addresses == {"m1", "a1", "r1"}

\* what an object holds: as made, or as changed by a caller
Contents == {"v0", "v1"}

\* the jobs callers enqueue: one with a Metadata map and Arguments, one
\* without
AliasJobs ==
    { [GoodJob("j1", "echo hi") EXCEPT !.Metadata = <<"m1">>, !.Arguments = <<"a1">>],
      GoodJob("j2", "ls") }

\* the results callers complete with: one with a Metadata map, one without
AliasResults ==
    { MkResult("j1", StatusSucceeded, 0, "hi", "", "", <<"r1">>),
      MkResult("j2", StatusFailed, 1, "", "", "Process exited with status 1", NilMap) }

\* the addresses a job or a result refers to
JobRefs(job) ==
    {job.Metadata[i] : i \in DOMAIN job.Metadata}
        \cup {job.Arguments[i] : i \in DOMAIN job.Arguments}

ResultRefs(result) == {result.Metadata[i] : i \in DOMAIN result.Metadata}

\* the ways a value reaches a caller: passed to Enqueue or Complete, returned
\* by Next or Lookup
Ways == {"enqueue", "next", "complete", "lookup"}

\* the caller holds the addresses refs through a value of the way given
Holds(refs, way) == {[addr |-> a, way |-> way] : a \in refs}

\* the store is new and the callers' objects are as they made them
AliasInit ==
    /\ NewStore
    /\ ExecOff
    /\ AgentOff
    /\ gate = NoGate
    /\ hlast = NoRequest
    /\ hphase = <<>>
    /\ heap = [a \in Addresses |-> "v0"]
    /\ held = {}

\* store.Enqueue(job): the caller keeps its job value
AliasEnqueue(job) ==
    /\ queue' = EnqueueApply(queue, records, job).queue
    /\ records' = EnqueueApply(queue, records, job).records
    /\ held' = held \cup Holds(JobRefs(job), "enqueue")
    /\ UNCHANGED <<mu, pc, frame, historyVars, heap, execVars, agentVars, gateVars, httpVars>>

\* store.Next(): jobCopy := rec.job; the caller gets &jobCopy
AliasNext ==
    /\ queue' = NextApply(queue, records).queue
    /\ records' = NextApply(queue, records).records
    /\ held' = IF NextApply(queue, records).job = <<>> THEN held
               ELSE held \cup Holds(JobRefs(NextApply(queue, records).job[1]), "next")
    /\ UNCHANGED <<mu, pc, frame, historyVars, heap, execVars, agentVars, gateVars, httpVars>>

\* store.Complete(result): resCopy := result; the caller keeps its result value
AliasComplete(result) ==
    /\ records' = CompleteApply(records, result).recs
    /\ held' = held \cup Holds(ResultRefs(result), "complete")
    /\ UNCHANGED <<queue, mu, pc, frame, historyVars, heap, execVars, agentVars, gateVars,
                   httpVars>>

\* store.Lookup(jobID): resultCopy := *rec.result; the caller gets &resultCopy
AliasLookup(jobID) ==
    /\ held' = IF LookupRecords(records, jobID).result = <<>> THEN held
               ELSE held \cup Holds(ResultRefs(LookupRecords(records, jobID).result[1]),
                                     "lookup")
    /\ UNCHANGED <<storeVars, heap, execVars, agentVars, gateVars, httpVars>>

\* a caller writes into a map or slice it reaches through a value it passed
\* to the store or got from it: job.Metadata["k"] = "v", job.Arguments[0] = "x"
AliasMutate(a, way, v) ==
    /\ [addr |-> a, way |-> way] \in held
    /\ heap[a] # v
    /\ heap' = [heap EXCEPT ![a] = v]
    /\ UNCHANGED <<storeVars, held, execVars, agentVars, gateVars, httpVars>>

AliasNextStep ==
    \/ \E job \in AliasJobs : AliasEnqueue(job)
    \/ AliasNext
    \/ \E result \in AliasResults : AliasComplete(result)
    \/ \E jobID \in LookupInputs : AliasLookup(jobID)
    \/ \E a \in Addresses, way \in Ways, v \in Contents : AliasMutate(a, way, v)

AliasSpec == AliasInit /\ [][AliasNextStep]_vars

\* =====================================================================
\* A caller of a transport, against any inbox or server
\* =====================================================================
\* a store that accepted the jobs of a sequence, in order
RECURSIVE Submitted(_)
Submitted(js) ==
    IF Len(js) = 0 THEN [queue |-> <<>>, records |-> <<>>, err |-> ""]
    ELSE LET before == Submitted(SubSeq(js, 1, Len(js) - 1))
         IN EnqueueApply(before.queue, before.records, js[Len(js)])

\* what was submitted to the controller before NextJob is called
Submissions ==
    { <<>>, <<GoodJob("j1", "echo hi")>>, <<GoodJob("j1", "echo hi"), GoodJob("j2", "ls")>>,
      <<TTYJob>> }

\* the job IDs WriteResult is called with: of a job that was submitted, of
\* one that was not, none, and a blank one
PostTokens == JobIDs \cup {UnknownID, "", " "}

\* the Results WriteResult is called with: of a command that succeeded, of
\* one that exited with 1, and the one Execute returns when the PTY is refused
PostResults ==
    { BuildResult(GoodJob("j1", "echo hi"), "hi", "", NilErr),
      BuildResult(GoodJob("j2", "ls"), "", "", ExitErr(1)),
      ZeroResult }

\* a transport is about to be called with a stop channel that is open:
\* NextJob on a FilesystemTransport over an inbox directory; NextJob on an
\* HTTPTransport whose controller holds what was submitted, the first job
\* fetched or not; or WriteResult on that HTTPTransport, with a job ID and a
\* Result
PollInit ==
    /\ StoreQuiet
    /\ SideOff
    /\ stop = FALSE
    /\ sigpc = "wait"
    /\ actx = "live"
    /\ tkind \in {"fs", "http"}
    /\ IF tkind = "fs"
       THEN /\ inbox \in InboxConfigs
            /\ queue = <<>>
            /\ records = <<>>
       ELSE /\ inbox = <<>>
            /\ \E js \in Submissions, fetched \in BOOLEAN :
                  \E s \in {Submitted(js)} :
                     \E n \in {NextApply(s.queue, s.records)} :
                        IF fetched /\ n.job # <<>>
                        THEN queue = n.queue /\ records = n.records
                        ELSE queue = s.queue /\ records = s.records
    /\ acfg \in AgentConfigs
    /\ apc \in IF tkind = "http" THEN {"select", "report"} ELSE {"select"}
    /\ IF apc = "report"
       THEN /\ \E jobID \in PostTokens :
                  ajob = << [job |-> GoodJob("j1", "echo hi"), path |-> <<jobID>>] >>
            /\ \E result \in PostResults : xret = << [result |-> result, err |-> NilErr] >>
            /\ xpc = "done"
            /\ xin = <<>>
            /\ xctx = "live"
            /\ xremote = "idle"
            /\ xdone = <<>>
            /\ xpath = ""
            /\ xdialed = FALSE
       ELSE ajob = <<>> /\ ExecOff
    /\ aerr = ""
    /\ ahist = NoHistory

\* the status codes a server may answer GET /v1/queue/next with
PollCodes == {200, 201, 204, 400, 404, 500}

\* the bodies it may send
PollBodies == {NoBody, TextBody("oops"), JobFile(GoodJob("j2", "ls")), JobFile(TTYJob)}

\* the answers to GET /v1/queue/next of the controller or of any other server
PollReplies(q, recs) ==
    NextReplies(q, recs)
        \cup { Reply("none", Response(c, b, q, recs)) : c \in PollCodes, b \in PollBodies }

\* the answer NextJob has just received
Heard(reply) ==
    [req |-> "next", id |-> "", code |-> reply.code, body |-> reply.body,
     empty |-> FALSE, fault |-> reply.fault]

\* GET /v1/queue/next, the answer kept for the record
PollRequest(reply) ==
    /\ RequestStep(reply)
    /\ hlast' = Heard(reply)
    /\ UNCHANGED <<gateVars, hphase, aliasVars>>

PollNext ==
    \/ AgentSelect
    \/ AgentScan
    \/ \E reply \in PollReplies(queue, records) : PollRequest(reply)
    \/ PostResult
    \/ SignalClose

\* a caller of a transport: one call of NextJob, or one of WriteResult
PollSpec == PollInit /\ [][PollNext]_vars

\* the goroutine calling the transport keeps running: a select that can be
\* taken is taken, a scan or a request that has begun ends
PollFairSpec ==
    /\ PollSpec
    /\ WF_vars(AgentSelect)
    /\ WF_vars(AgentScan)
    /\ WF_vars(\E reply \in PollReplies(queue, records) : PollRequest(reply))
    /\ WF_vars(PostResult)

\* =====================================================================
\* The store's contract
\* =====================================================================
EnqueuedIDs == {enqLog[k].ID : k \in DOMAIN enqLog}

TerminalStatuses == {StatusSucceeded, StatusFailed}

\* C1: Enqueue(j) then Next() returns a job equal field-for-field to j: every
\* job Next returns is the job a successful Enqueue was given; after an
\* Enqueue on an empty queue the first Next returns exactly that job and any
\* further Next, with no Enqueue in between, returns (nil, false); and no job
\* ID is returned by Next more than once.
C1_EnqueueThenNext ==
    /\ \A i \in DOMAIN nextLog : \E k \in DOMAIN enqLog : enqLog[k] = nextLog[i].job
    /\ \A i, k \in DOMAIN nextLog :
          nextLog[i].job.ID = nextLog[k].job.ID => i = k
    /\ \A t \in Callers :
          (pc[t] = "next_ret" /\ epochM = 1) =>
             /\ epochN = 1 => /\ frame[t].ok
                              /\ frame[t].ret = <<enqLog[Len(enqLog)]>>
             /\ epochN >= 2 => /\ ~frame[t].ok
                               /\ frame[t].ret = <<>>

\* C1 witness: after Enqueue on an empty queue and one Next that got the job,
\* a second Next has just returned (nil, false).
C1_Witness ==
    \E t \in Callers :
        /\ pc[t] = "next_ret" /\ ~frame[t].ok
        /\ epochM = 1 /\ epochN = 2 /\ epochGot = 1
        /\ nextLog # <<>> /\ nextLog[Len(nextLog)].job = enqLog[Len(enqLog)]

\* C2: FIFO.  If a's Enqueue succeeded before b's and Next has returned b,
\* then Next returned a earlier, whatever Complete and Lookup calls came in
\* between.
C2_FIFO ==
    \A a, b \in DOMAIN enqLog :
        a < b =>
            \A q \in DOMAIN nextLog :
                nextLog[q].job.ID = enqLog[b].ID =>
                    \E p \in 1..(q - 1) : nextLog[p].job.ID = enqLog[a].ID

\* C2 witness: two jobs were queued together, a Complete came in between, and
\* both have been served.
C2_Witness ==
    /\ Len(enqLog) = 2 /\ Len(nextLog) = 2
    /\ epochM = 2
    /\ completed # {}

\* C3: concurrent Next callers.  No job ID is handed to two callers; of the
\* N Next calls made since the queue held M jobs exactly min(M, N) received a
\* job; and each successful Next takes exactly the head off the queue.
C3_NextExclusive ==
    /\ [](\A i, k \in DOMAIN nextLog :
             i # k => nextLog[i].job.ID # nextLog[k].job.ID)
    /\ [](epochGot = Min(epochM, epochN))
    /\ [][\A t \in Callers :
             (pc[t] = "next_pop" /\ pc'[t] = "next_ret") =>
                /\ Len(queue) > 0
                /\ queue' = Tail(queue)
                /\ frame'[t].ret[1].ID = Head(queue)]_vars

\* C3 witness: two jobs were queued, three Next calls followed, two different
\* callers received one job each and the third call received none.
C3_Witness ==
    /\ epochM = 2 /\ epochN = 3 /\ epochGot = 2
    /\ Len(nextLog) = 2 /\ nextLog[1].by # nextLog[2].by

\* a status change the lifecycle pending -> running -> (succeeded | failed) allows
StatusStepAllowed(old, new) ==
    \/ old = new
    \/ old = StatusPending /\ new = StatusRunning
    \/ old = StatusRunning /\ new \in TerminalStatuses
    \/ old \in TerminalStatuses /\ new \in TerminalStatuses

\* C4: a record's status only moves pending -> running -> (succeeded |
\* failed): a new record is pending, and no step returns to pending, leaves
\* a terminal value for a non-terminal one or reaches a terminal value from
\* pending.
C4_StatusLifecycle ==
    [][\A id \in DOMAIN records' :
          IF id \in DOMAIN records
          THEN StatusStepAllowed(records[id].status, records'[id].status)
          ELSE records'[id].status = StatusPending]_vars

\* C5: an Enqueue that returns an error leaves queue and records as they
\* were; of the Enqueue calls of valid jobs under one ID exactly one
\* succeeds; and an Enqueue fails only for an invalid job or a taken ID.
C5_FailedEnqueueNoEffect ==
    /\ [][\A t \in Callers :
             (pc[t] # "enq_ret" /\ pc'[t] = "enq_ret" /\ frame'[t].err # "") =>
                 /\ queue' = queue
                 /\ records' = records]_vars
    /\ [](\A t \in Callers :
             (pc[t] = "enq_ret" /\ Validate(frame[t].job) = "") =>
                 Cardinality({k \in DOMAIN enqLog :
                                 enqLog[k].ID = frame[t].job.ID}) = 1)
    /\ [](\A t \in Callers :
             (pc[t] = "enq_ret" /\ frame[t].err = "") =>
                 /\ Validate(frame[t].job) = ""
                 /\ records[frame[t].job.ID].job = frame[t].job)
    /\ [](\A i, k \in DOMAIN queue : queue[i] = queue[k] => i = k)

\* C5 witness: an Enqueue has just failed because another job already holds
\* its ID, with a job waiting in the queue.
C5_Witness ==
    \E t \in Callers :
        /\ pc[t] = "enq_ret" /\ frame[t].err = "job already exists"
        /\ records[frame[t].job.ID].job # frame[t].job
        /\ Len(queue) = 2

\* C6: Complete for an ID that was never enqueued returns an error, creates
\* no record and changes nothing, and Lookup of such an ID reports not found.
C6_CompleteUnknown ==
    /\ [](\A t \in Callers :
             (pc[t] = "cmp_ret" /\ frame[t].res.JobID \notin EnqueuedIDs) =>
                 /\ frame[t].err # ""
                 /\ frame[t].res.JobID \notin DOMAIN records)
    /\ [](\A t \in Callers :
             (pc[t] = "look_ret" /\ frame[t].jobID \notin EnqueuedIDs) =>
                 ~frame[t].ret.found)
    /\ [][\A t \in Callers :
             (pc[t] = "cmp_body" /\ pc'[t] = "cmp_ret" /\ frame'[t].err # "") =>
                 /\ records' = records
                 /\ queue' = queue]_vars

\* C6 witness: with another job in the store, a Complete for an ID nobody
\* enqueued has just returned its error.
C6_Witness ==
    \E t \in Callers :
        /\ pc[t] = "cmp_ret" /\ frame[t].err # ""
        /\ frame[t].res.JobID = "j2"
        /\ DOMAIN records = {"j1"}

\* C7: Lookup of an enqueued ID finds it; while no Complete has succeeded for
\* it the result is nil and the status pending or running; once one has, the
\* result is non-nil and its JobID is the ID looked up.
C7_LookupResult ==
    \A t \in Callers :
        (pc[t] = "look_ret" /\ frame[t].jobID \in EnqueuedIDs) =>
            LET r == frame[t].ret
            IN /\ r.found
               /\ IF frame[t].jobID \in completed
                  THEN r.result # <<>> /\ r.result[1].JobID = frame[t].jobID
                  ELSE /\ r.result = <<>>
                       /\ r.status \in {StatusPending, StatusRunning}

\* C7 witness: a Lookup has just returned the result of a completed job.
C7_Witness ==
    \E t \in Callers :
        /\ pc[t] = "look_ret" /\ frame[t].jobID \in completed
        /\ frame[t].ret.result # <<>>

\* C8: after a successful Complete(r), whatever was recorded before, Lookup
\* returns r and r.Status (last write wins); a Complete(r) on a record that
\* already holds r changes nothing (idempotent); Complete never changes the
\* queue, the set of records, the job of its record or any other record.
C8_CompleteLastWriteWins ==
    /\ [](\A t \in Callers :
             (pc[t] = "cmp_ret" /\ frame[t].err = "") =>
                 LookupRecords(records, frame[t].res.JobID) =
                     [status |-> frame[t].res.Status,
                      result |-> <<frame[t].res>>, found |-> TRUE])
    /\ [][\A t \in Callers :
             (pc[t] = "cmp_body" /\ pc'[t] = "cmp_ret") =>
                 LET r == frame[t].res
                 IN /\ queue' = queue
                    /\ DOMAIN records' = DOMAIN records
                    /\ \A id \in DOMAIN records :
                          /\ records'[id].job = records[id].job
                          /\ id # r.JobID => records'[id] = records[id]
                    /\ (/\ r.JobID \in DOMAIN records
                        /\ records[r.JobID].result = <<r>>
                        /\ records[r.JobID].status = r.Status)
                          => records' = records]_vars

\* C8 witness: a Complete has just replaced a different, earlier result.
C8_Witness ==
    \E t \in Callers :
        /\ pc[t] = "cmp_ret" /\ frame[t].err = ""
        /\ frame[t].old # <<>> /\ frame[t].old # <<frame[t].res>>
        /\ DOMAIN records = JobIDs

\* =====================================================================
\* The executor's contract
\* =====================================================================
\* C9: on every exit path Execute returns a Result whose JobID is the job's
\* ID and whose Status is succeeded or failed, and whenever it returns a
\* non-nil error that Result is failed with a non-empty Error.
C9_WellFormedResult ==
    xpc = "done" =>
        LET r == xret[1].result
            e == xret[1].err
        IN /\ r.JobID = xin.job.ID
           /\ r.Status \in {StatusSucceeded, StatusFailed}
           /\ e # NilErr => (r.Status = StatusFailed /\ r.Error # "")

\* the exit paths on which Execute fails otherwise than by the remote
\* command's nonzero exit
OtherFailures ==
    {"validation", "credentials", "dial", "handshake", "session", "pty", "cancel", "run"}

\* C10: the Result is succeeded with ExitCode 0 exactly when the remote
\* command ran and returned no error; when the run error is a remote
\* nonzero-exit error the Result is failed and ExitCode is that exit status;
\* for every other failure (validation, credentials, dial, handshake, session,
\* PTY request, cancellation, another run error) it is failed with ExitCode -1
\* and a non-empty Error.
C10_ResultEncoding ==
    xpc = "done" =>
        LET r == xret[1].result
            e == xret[1].err
        IN /\ (r.Status = StatusSucceeded /\ r.ExitCode = 0) <=> xpath = "success"
           /\ xpath = "success" <=> (xremote = "sent" /\ e = NilErr)
           /\ xpath = "exit" <=> e.type = "ExitError"
           /\ e.type = "ExitError" =>
                 /\ r.Status = StatusFailed
                 /\ r.ExitCode = e.status
                 /\ r.ExitCode # 0
           /\ xpath \in OtherFailures =>
                 /\ r.Status = StatusFailed
                 /\ r.ExitCode = -1
                 /\ r.Error # ""

\* C11: a job whose Checksum is not the SHA-256 hex digest of its Command
\* never gets past validation: no dial, handshake or session step occurs,
\* and Execute returns a failed Result with the validation error.
C11_ChecksumGate ==
    Sha256Hex(xin.job.Command) # xin.job.Checksum =>
        /\ ~xdialed
        /\ xpc \in {"validate", "done"}
        /\ xpc = "done" =>
              /\ xpath = "validation"
              /\ xret[1].err # NilErr
              /\ xret[1].result.Status = StatusFailed
              /\ xret[1].result.JobID = xin.job.ID

\* C11 witness: an otherwise valid job with a wrong checksum has been
\* rejected with "checksum mismatch", no allow-list being set.
C11_Witness ==
    /\ xpc = "done"
    /\ Validate(xin.job) = "" /\ xin.allow = {}
    /\ Sha256Hex(xin.job.Command) # xin.job.Checksum
    /\ xret[1].err = PlainErr("checksum mismatch")

\* C12: with a non-empty allow-list a job whose Command is not in it is
\* rejected before any dial, with a Result that is failed, has ExitCode -1
\* and a non-empty Error; with an empty or unset allow-list no valid job with
\* a matching checksum is stopped at validation.
C12_AllowList ==
    /\ (Cardinality(xin.allow) > 0 /\ xin.job.Command \notin xin.allow) =>
          /\ ~xdialed
          /\ xpc \in {"validate", "done"}
          /\ xpc = "done" =>
                /\ xpath = "validation"
                /\ xret[1].result.Status = StatusFailed
                /\ xret[1].result.ExitCode = -1
                /\ xret[1].result.Error # ""
    /\ (/\ xin.allow = {}
        /\ Validate(xin.job) = ""
        /\ Sha256Hex(xin.job.Command) = xin.job.Checksum) =>
          /\ xpc # "validate" => xpath # "validation"

\* C12 witness: with the allow-list {echo hi, ls} the valid job "rm -rf /",
\* whose checksum matches, has been rejected.
C12_Witness ==
    /\ xpc = "done" /\ xpath = "validation"
    /\ xin.allow = {"echo hi", "ls"}
    /\ xin.job = GoodJob("j2", "rm -rf /")
    /\ xret[1].result.ExitCode = -1

\* =====================================================================
\* The agent loop's contract
\* =====================================================================
\* C13: the loop reaches stopped only from the check that follows a NextJob
\* error, and only with stop closed; from a successful NextJob to the return
\* of WriteResult it neither exits nor fetches, and when the next fetch begins
\* Execute has run once and WriteResult has been attempted once for the job.
C13_LoopSequencing ==
    [][ /\ (apc' = "stopped" /\ apc # "stopped") => (apc = "nexterr" /\ stop)
        /\ apc = "fetched" => apc' \in {"fetched", "exec"}
        /\ apc = "exec" => apc' \in {"exec", "report"}
        /\ apc = "report" => apc' \in {"report", "select"}
        /\ (apc = "exec" /\ apc' = "report") => (xpc = "done" /\ ahist.iterExec = 1)
        /\ (apc = "report" /\ apc' = "select") =>
              (ahist'.iterExec = 1 /\ ahist'.iterWrite = 1)
        /\ apc' \in {"select", "poll", "nexterr", "stopped"} => ajob' = <<>>
      ]_vars

\* C13 witness: the loop has stopped after a job was executed and its result
\* written.
C13_Witness ==
    /\ apc = "stopped"
    /\ ahist.executed # {} /\ ahist.written # {}
    /\ ahist.iterExec = 1 /\ ahist.iterWrite = 1

\* C14: a shutdown requested while Execute runs lets the execution finish: a
\* Result that reaches WriteResult never comes from Execute giving up because
\* the shutdown cancelled its context.
C14_ShutdownLetsExecutionFinish ==
    apc = "report" => ~(xpath = "cancel" /\ xctx = "canceled")

\* C15: Execute is invoked at most once per job token (job file, job ID), and
\* at most one Result is written for it.
C15_ResultOncePerJob ==
    ahist.executedTwice = {} /\ ahist.writtenTwice = {}

\* C19: when Execute takes its select with the context done and the remote
\* command not completed, it returns a Result that is failed, has ExitCode -1
\* and a non-empty Error; the job's deadline does this, and so does the
\* shutdown signal, whose cancel() reaches the context of a running Execute.
C19_ContextDoneAborts ==
    [][ /\ (Executing /\ xpc = "select" /\ xctx # "live" /\ xdone = <<>>
            /\ xpc' = "done") =>
              /\ xpath' = "cancel"
              /\ xret'[1].err = CtxErr(xctx)
              /\ xret'[1].result.Status = StatusFailed
              /\ xret'[1].result.ExitCode = -1
              /\ xret'[1].result.Error # ""
        /\ (actx' = "canceled" /\ Executing' /\ xpc' \notin {"off", "done"}) =>
              xctx' # "live"
      ]_vars

\* C19 witness: the shutdown signal cancelled a context that was live while
\* the remote command ran, and Execute returned through the context's branch.
C19_Witness ==
    /\ Executing /\ xpc = "done" /\ xpath = "cancel"
    /\ xctx = "canceled" /\ sigpc = "cancelled"
    /\ xdone = <<>>
    /\ xret[1].result.ExitCode = -1

\* C20: while stop is not closed the loop does not exit; after a NextJob error
\* it goes back to NextJob; after an Execute error it goes on to WriteResult,
\* which gets the Result Execute returned; after a WriteResult error it goes
\* back to NextJob, WriteResult having been called once for that Result, which
\* the loop then no longer holds.
C20_ErrorsDoNotStopLoop ==
    [][ ~stop =>
          /\ apc' # "stopped"
          /\ apc = "nexterr" => apc' \in {"nexterr", "select"}
          /\ (apc = "exec" /\ xpc = "done" /\ xret[1].err # NilErr /\ apc' # apc) =>
                (apc' = "report" /\ xret' = xret /\ ajob' = ajob)
          /\ (apc = "report" /\ apc' # apc /\ aerr' = "") =>
                inbox'[ResultPath(ajob[1].path)] = JsonBody(EncodeResult(xret[1].result))
          /\ (apc = "report" /\ aerr' # "") =>
                /\ apc' = "select"
                /\ ahist'.iterWrite = 1
                /\ ajob' = <<>> /\ xret' = <<>>
      ]_vars

\* C20 witness: with stop open, the loop is back at NextJob after WriteResult
\* failed for a Result that came with an Execute error.
C20_Witness ==
    /\ ~stop /\ apc = "select"
    /\ aerr # "" /\ ahist.iterWrite = 1
    /\ ahist.executed # {} /\ ahist.written = {}

\* a sequence of runes with one that is not white space
HasNonSpace(chars) == \E i \in DOMAIN chars : ~IsSpace(chars[i])

\* a job with ID, TargetHost, TargetUser, Command and Checksum present and
\* credentials whose username and password are not blank
AllPresent(j) ==
    /\ j.ID # "" /\ j.TargetHost # "" /\ j.TargetUser # ""
    /\ j.Command # "" /\ j.Checksum # ""
    /\ HasNonSpace(j.Credentials.Username) /\ HasNonSpace(j.Credentials.Password)

\* C16: a job with a missing field or blank credentials fails Validate and no
\* entry lets it in: not Enqueue, not NextJob of either transport, not the
\* executor's validation before the dial; a job with all of them present
\* passes Validate.
C16_ValidateGate ==
    gate.job # <<>> =>
        /\ ~AllPresent(gate.job[1]) => (Validate(gate.job[1]) # "" /\ gate.passed = {})
        /\ AllPresent(gate.job[1]) => Validate(gate.job[1]) = ""

\* C16 witness: a job whose only defect is a password of blanks has been
\* offered to all four entries and none let it in.
C16_Witness ==
    /\ gate.job # <<>>
    /\ gate.tried = Gates /\ gate.passed = {}
    /\ gate.job[1].Credentials.Password = <<12288>>
    /\ AllPresent([gate.job[1] EXCEPT !.Credentials.Password = Chars("p")])

\* C17: GET /v1/jobs/{id} answers 404 while the ID is unknown, 202 with status
\* pending after its POST /v1/jobs was accepted, 202 with status running after
\* GET /v1/queue/next returned it, and 200 with the posted Result after a POST
\* /v1/jobs/{id}/results was accepted; GET /v1/queue/next answers 204 with an
\* empty body when the queue is empty.
C17_HttpLifecycle ==
    /\ (hlast.req = "status" /\ hlast.id \notin DOMAIN hphase) => hlast.code = 404
    /\ (hlast.req = "status" /\ hlast.id \in DOMAIN hphase) =>
          LET last == hphase[hlast.id]
          IN /\ last.phase = "submitted" =>
                   (hlast.code = 202 /\ hlast.body = JsonBody(<<Member("status", JsonString(StatusPending))>>))
             /\ last.phase = "fetched" =>
                   (hlast.code = 202 /\ hlast.body = JsonBody(<<Member("status", JsonString(StatusRunning))>>))
             /\ last.phase = "resulted" =>
                   (hlast.code = 200 /\ hlast.body = JsonBody(EncodeResult(last.posted[1])))
    /\ (hlast.req = "next" /\ hlast.empty) => (hlast.code = 204 /\ hlast.body = NoBody)

\* what a reference gives when it is followed
Deref(ref, hp) == [i \in DOMAIN ref |-> hp[ref[i]]]

\* what the caller of a later Next and the callers of later Lookups would
\* read in the values they get, maps and slices followed
Observable(q, recs, hp) ==
    [ next |-> [i \in DOMAIN NextApply(q, recs).job |->
                  [NextApply(q, recs).job[i] EXCEPT !.Metadata = Deref(@, hp),
                                                    !.Arguments = Deref(@, hp)]],
      lookup |-> [id \in LookupInputs |->
                    [status |-> LookupRecords(recs, id).status,
                     found |-> LookupRecords(recs, id).found,
                     result |-> [i \in DOMAIN LookupRecords(recs, id).result |->
                                   [LookupRecords(recs, id).result[i]
                                       EXCEPT !.Metadata = Deref(@, hp)]]]] ]

\* C18: a caller writing into a value it passed to Enqueue or Complete, or
\* got from Next or Lookup, its Metadata map and Arguments list included,
\* changes nothing of what a later Next or Lookup returns.
C18_DefensiveCopies ==
    [][ heap' # heap =>
          Observable(queue', records', heap') = Observable(queue, records, heap) ]_vars

\* C21: with either transport, once stop is closed a NextJob that is polling
\* returns: an iteration that begins with stop closed returns "polling
\* stopped" without a scan or a request, so at most the one poll already in
\* progress ends after stop, and no later iteration takes a job file or a
\* queue entry.
C21_StopEndsPolling ==
    /\ [][ /\ (apc = "select" /\ stop /\ apc' # apc) =>
                /\ apc' = "nexterr" /\ aerr' = "polling stopped"
                /\ ajob' = <<>>
                /\ queue' = queue /\ records' = records /\ inbox' = inbox
           /\ ahist'.latePolls = 0
           /\ ahist'.stopPolls <= 1
         ]_vars
    /\ (stop /\ apc \in {"select", "poll"}) ~> (apc \notin {"select", "poll"})

\* C21 witness: NextJob returned "polling stopped" after the one poll that
\* was in progress when stop closed had ended.
C21_Witness ==
    /\ stop /\ apc = "nexterr" /\ aerr = "polling stopped"
    /\ ahist.stopPolls = 1 /\ ahist.latePolls = 0

\* the jobs the answers of the model carry
PolledJobs ==
    {GoodJob("j1", "echo hi"), GoodJob("j2", "ls"), TTYJob, BlankPasswordJob}

\* C22: HTTPTransport.NextJob on an answer it could read: 204 makes it wait
\* and poll again; 200 makes it return the job of the body with the job's ID
\* as token (an error if the body is no job, or a job Validate rejects); any
\* other status makes it return an error without another poll.
C22_HttpNextJobMapping ==
    [][ (apc = "poll" /\ tkind = "http" /\ apc' # apc /\ hlast'.fault = "none") =>
          /\ hlast'.code = 204 => (apc' = "select" /\ ajob' = <<>> /\ aerr' = "")
          /\ hlast'.code = 200 =>
                /\ hlast'.body.json => \E job \in PolledJobs : hlast'.body = JobFile(job)
                /\ \A job \in PolledJobs :
                      hlast'.body = JobFile(job) =>
                         IF Validate(job) = ""
                         THEN /\ apc' = "fetched"
                              /\ ajob' = << [job |-> job, path |-> <<job.ID>>] >>
                         ELSE apc' = "nexterr" /\ aerr' # "" /\ ajob' = <<>>
                /\ ~hlast'.body.json => (apc' = "nexterr" /\ aerr' # "" /\ ajob' = <<>>)
          /\ hlast'.code \notin {200, 204} =>
                (apc' = "nexterr" /\ aerr' # "" /\ ajob' = <<>>)
      ]_vars

\* C22 witness: NextJob returned an error for a 404 that carried a valid job.
C22_Witness ==
    /\ tkind = "http" /\ apc = "nexterr" /\ ~stop
    /\ hlast.fault = "none" /\ hlast.code = 404 /\ hlast.body = JobFile(TTYJob)
    /\ aerr = "controller returned"

\* the pins execution.host_key_fingerprints holds for the address a job is
\* run at: those under its host, and those under its host and effective port
PinsFor(job, pins) ==
    { pins[k] : k \in { x \in DOMAIN pins :
                          /\ x[1] = job.TargetHost
                          /\ Len(x) = 2 => x[2] = EffectivePort(job.TargetPort) } }

\* C23: when the configuration pins a host key for the job's target and the
\* remote presents another key, Execute never opens a session or runs the
\* command, and what it returns is a failed Result with ExitCode -1, for a
\* port given explicitly, as 0, or as a negative value.
C23_PinnedHostRefused ==
    (xpc # "off" /\ \E pin \in PinsFor(xin.job, xin.pins) : pin # xin.hostKey) =>
        /\ xpc \notin {"session", "pty", "run", "select"}
        /\ xremote = "idle"
        /\ xpc = "done" =>
              /\ xret[1].err # NilErr
              /\ xret[1].result.Status = StatusFailed
              /\ xret[1].result.ExitCode = -1

\* the IDs waiting in the FIFO queue
QueuedIDs == { queue[i] : i \in DOMAIN queue }

\* C24: in every store state an ID is in the queue exactly when its record's
\* status is pending, every queued ID has a record, and no ID is queued
\* twice.
C24_QueuedIffPending ==
    /\ \A id \in QueuedIDs : id \in DOMAIN records
    /\ \A i, j \in DOMAIN queue : queue[i] = queue[j] => i = j
    /\ \A id \in DOMAIN records : id \in QueuedIDs <=> records[id].status = StatusPending

\* C25: an accepted POST /v1/jobs/{id}/results, whatever its body, changes
\* the record of the job named in the path and no other, and GET
\* /v1/jobs/{id} then answers 200 with a Result.
C25_ResultTouchesPathJobOnly ==
    [][ (hlast'.req = "result" /\ hlast'.code = 202) =>
          /\ DOMAIN records' = DOMAIN records
          /\ \A id \in DOMAIN records : id # hlast'.id => records'[id] = records[id]
          /\ hlast'.id \in DOMAIN records'
          /\ HandleStatus(queue', records', hlast'.id).code = 200
      ]_vars

\* the job files of an inbox that parse and pass Validate
ValidJobFiles(files) ==
    { n \in DOMAIN files :
        /\ IsJobFile(n)
        /\ \E job \in PolledJobs : Validate(job) = "" /\ files[n] = JobFile(job) }

\* C26: with the filesystem transport, an inbox that holds a job file that
\* parses and passes Validate, whatever else it holds, leads NextJob to
\* return a job, unless stop is raised.
C26_ValidJobFileIsFound ==
    (tkind = "fs" /\ ValidJobFiles(inbox) # {}) => <>(stop \/ apc = "fetched")

\* C27: a job the controller accepted is fetched and gets a Result recorded
\* by an accepted POST of its results, and from then on its status is
\* succeeded or failed; here its finite part: the record of a job that was
\* fetched and holds a Result has a terminal status.
C27_RecordedResultIsTerminal ==
    \A id \in DOMAIN records :
        (id \notin QueuedIDs /\ records[id].result # <<>>) =>
            records[id].status \in TerminalStatuses

====
